---- MODULE Spec2Model ----
(***************************************************************************)
(* Model of the specification / filter compiler of the backbone package:  *)
(*   - FilterParser (list syntax and map syntax, value coercion)           *)
(*   - the specification tree and its in-memory evaluator                  *)
(*   - SortParser, QueryBuilder, the MongoDB and SQLAlchemy translators     *)
(*   - the units of work, MockRepository and EventBusWithAdapters          *)
(*                                                                         *)
(* Python strings are modelled as sequences of one-character strings, so  *)
(* that split, strip, lower, isdigit, int and float are computed the way  *)
(* the interpreter computes them.  The character "SUP2" stands for the    *)
(* code point U+00B2 (superscript two): str.isdigit() accepts it and      *)
(* int() rejects it.                                                       *)
(***************************************************************************)
EXTENDS Integers, Sequences, FiniteSets, TLC

VARIABLES
    syntax,      \* "list" | "map": which surface syntax the input uses
    filters,     \* the argument of parse_filters: a sequence of entries
    pc,          \* "ready" -> "parsed" -> "evaluated"
    result,      \* outcome of parse_filters (a specification, None or a raise)
    candidate,   \* the entity handed to is_satisfied_by
    satisfied,   \* outcome of is_satisfied_by
    leaf,        \* a leaf specification built directly (evaluator runs)
    tree,        \* a specification composed with and_spec / or_spec / not_spec
    translated,  \* outcome of MongoDBSpecificationTranslator.translate
    sort_arg,    \* the argument of parse_sort / parse_multiple_sorts
    sort_out,    \* outcome of parse_sort / parse_multiple_sorts
    heap,        \* the list objects of the builder runs, by address
    builders,    \* the QueryBuilder instances: fields holding values or addresses
    exported,    \* the descriptor returned by to_query_definition
    snapshot,    \* the contents of that descriptor at the time it was returned
    steps,       \* number of builder operations performed
    last,        \* the last builder operation: its name, builder and arguments
    model_class, \* the model class of a SQLAlchemySpecificationTranslator
    visited,     \* the nodes whose is_satisfied_by ran, in call order
    rebuilt,     \* a leaf rebuilt by the factory from to_expression()
    nodes,       \* the specification objects of the object runs, by address
    verdicts,    \* the results of the is_satisfied_by calls of the object runs
    uow,         \* a unit of work: tracking lists and flags
    calls,       \* the commit / rollback calls made on the unit of work
    repo,        \* a MockRepository: _data and _next_id
    bus,         \* an EventBusWithAdapters: _handlers and _filters
    subscribed,  \* the filter each subscription was registered with
    invoked      \* the handlers run by the last publish

parserVars == <<syntax, filters, pc, result, candidate, satisfied>>
evalVars == <<leaf>>
treeVars == <<tree, translated, model_class, visited>>
sortVars == <<sort_arg, sort_out>>
builderVars == <<heap, builders, exported, snapshot, steps, last>>
nodeVars == <<nodes, verdicts>>
uowVars == <<uow, calls>>
repoVars == <<repo>>
busVars == <<bus, subscribed, invoked>>
restVars == <<rebuilt, nodeVars, uowVars, repoVars, busVars>>
vars == <<syntax, filters, pc, result, candidate, satisfied, leaf,
          treeVars, restVars, sortVars, builderVars>>

(***************************************************************************)
(* Bounds of the model.                                                    *)
(***************************************************************************)
MaxEntries == 3

Idle == [k |-> "idle"]

\* the variables of the runs that are not taking place
TreeIdle == tree = Idle /\ translated = Idle /\ model_class = Idle /\ visited = Idle
SortIdle == sort_arg = Idle /\ sort_out = Idle
BuilderIdle ==
    /\ heap = <<>> /\ builders = <<>> /\ exported = Idle /\ snapshot = Idle
    /\ steps = 0 /\ last = Idle
NodeIdle == nodes = <<>> /\ verdicts = {}
UowIdle == uow = Idle /\ calls = <<>>
RepoIdle == repo = Idle
BusIdle == bus = Idle /\ subscribed = Idle /\ invoked = Idle
RestIdle == rebuilt = Idle /\ NodeIdle /\ UowIdle /\ RepoIdle /\ BusIdle
ParserIdle ==
    /\ syntax = Idle /\ filters = Idle /\ result = Idle
    /\ candidate = Idle /\ satisfied = Idle /\ leaf = Idle

(***************************************************************************)
(* Python str primitives.                                                  *)
(***************************************************************************)
UpperLetters == <<"A","B","C","D","E","F","G","H","I","J","K","L","M",
                  "N","O","P","Q","R","S","T","U","V","W","X","Y","Z">>
LowerLetters == <<"a","b","c","d","e","f","g","h","i","j","k","l","m",
                  "n","o","p","q","r","s","t","u","v","w","x","y","z">>
AsciiDigits == <<"0","1","2","3","4","5","6","7","8","9">>

\* str.lower() on one character
LowerChar(c) ==
    IF \E i \in 1..26 : UpperLetters[i] = c
    THEN LowerLetters[CHOOSE i \in 1..26 : UpperLetters[i] = c]
    ELSE c

\* str.lower()
Lower(s) == [i \in 1..Len(s) |-> LowerChar(s[i])]

\* str.isspace() on one character
IsSpace(c) == c \in {" ", "\t"}

RECURSIVE LStrip(_)
LStrip(s) == IF s # <<>> /\ IsSpace(Head(s)) THEN LStrip(Tail(s)) ELSE s

RECURSIVE RStrip(_)
RStrip(s) ==
    IF s # <<>> /\ IsSpace(s[Len(s)]) THEN RStrip(SubSeq(s, 1, Len(s) - 1)) ELSE s

\* str.strip()
Strip(s) == RStrip(LStrip(s))

\* first index >= 1 at which sep occurs in s, 0 when it does not occur
FindStr(s, sep) ==
    LET hits == {i \in 1..(Len(s) - Len(sep) + 1) :
                    SubSeq(s, i, i + Len(sep) - 1) = sep}
    IN IF hits = {} THEN 0 ELSE CHOOSE i \in hits : \A j \in hits : i <= j

\* sub in s
Contains(s, sub) == FindStr(s, sub) # 0

\* str.split(sep, maxsplit); maxsplit = -1 splits at every occurrence
RECURSIVE Split(_, _, _)
Split(s, sep, maxsplit) ==
    LET i == FindStr(s, sep)
    IN IF maxsplit = 0 \/ i = 0
       THEN <<s>>
       ELSE <<SubSeq(s, 1, i - 1)>> \o
            Split(SubSeq(s, i + Len(sep), Len(s)), sep, maxsplit - 1)

\* str.startswith
StartsWith(s, p) == Len(s) >= Len(p) /\ SubSeq(s, 1, Len(p)) = p

\* one character of str.isdigit(): the ASCII digits and, among others, U+00B2
IsDigitChar(c) == (\E i \in 1..10 : AsciiDigits[i] = c) \/ c = "SUP2"

\* str.isdigit(): non-empty and every character a digit
IsDigit(s) == s # <<>> /\ \A i \in 1..Len(s) : IsDigitChar(s[i])

\* the characters int() and float() accept as decimal digits
IsDecimalChar(c) == \E i \in 1..10 : AsciiDigits[i] = c

DecimalValue(c) == (CHOOSE i \in 1..10 : AsciiDigits[i] = c) - 1

RECURSIVE DigitsValue(_)
DigitsValue(s) ==
    IF s = <<>> THEN 0
    ELSE 10 * DigitsValue(SubSeq(s, 1, Len(s) - 1)) + DecimalValue(s[Len(s)])

AllDecimal(s) == \A i \in 1..Len(s) : IsDecimalChar(s[i])

RECURSIVE Pow10(_)
Pow10(n) == IF n <= 0 THEN 1 ELSE 10 * Pow10(n - 1)

(***************************************************************************)
(* Python values: None, bool, int, float, str and list.  A float is the   *)
(* decimal n / 10^sc, kept normalised (no trailing zero in the fraction). *)
(***************************************************************************)
PyNone == [k |-> "none"]
PyBool(b) == [k |-> "bool", b |-> b]
PyInt(i) == [k |-> "int", i |-> i]
PyStr(s) == [k |-> "str", s |-> s]
PyList(items) == [k |-> "list", items |-> items]

RECURSIVE PyFloat(_, _)
PyFloat(n, sc) ==
    IF sc > 0 /\ n % 10 = 0 THEN PyFloat(n \div 10, sc - 1)
    ELSE [k |-> "float", n |-> n, sc |-> sc]

Returned(v) == [ok |-> TRUE, val |-> v]
Raised(exc, vot, inv, code) ==
    [ok |-> FALSE, exc |-> exc, value_object_type |-> vot,
     invalid_value |-> inv, code |-> code]

\* int(s) for s that passed the isdigit test: ValueError on a non-decimal digit
IntOf(s, sign) ==
    IF AllDecimal(s) THEN Returned(PyInt(sign * DigitsValue(s)))
    ELSE Raised("ValueError", "", s, 0)

\* the digits of a digit part of a float literal, "_" separators removed
StripUnderscores(s) == SelectSeq(s, LAMBDA c : c # "_")

\* digitpart ::= digit (["_"] digit)*
IsDigitPart(s) ==
    /\ s # <<>>
    /\ \A i \in 1..Len(s) : IsDecimalChar(s[i]) \/ s[i] = "_"
    /\ IsDecimalChar(s[1]) /\ IsDecimalChar(s[Len(s)])
    /\ \A i \in 1..(Len(s) - 1) : ~(s[i] = "_" /\ s[i + 1] = "_")

\* the parts of a float literal
\*   [sign] (digitpart "." [digitpart] | "." digitpart) [("e"|"E") [sign] digitpart]
SignOf(s) == IF s # <<>> /\ s[1] = "-" THEN -1 ELSE 1
Unsigned(s) == IF s # <<>> /\ s[1] \in {"+", "-"} THEN Tail(s) ELSE s
ExpPos(body) ==
    LET hits == {i \in 1..Len(body) : body[i] \in {"e", "E"}}
    IN IF hits = {} THEN 0 ELSE CHOOSE i \in hits : \A j \in hits : i <= j
Mantissa(body) ==
    IF ExpPos(body) = 0 THEN body ELSE SubSeq(body, 1, ExpPos(body) - 1)
Exponent(body) ==
    IF ExpPos(body) = 0 THEN <<>> ELSE SubSeq(body, ExpPos(body) + 1, Len(body))
IntPart(mant) == SubSeq(mant, 1, FindStr(mant, <<".">>) - 1)
FracPart(mant) == SubSeq(mant, FindStr(mant, <<".">>) + 1, Len(mant))

MantissaOk(mant) ==
    /\ Contains(mant, <<".">>)
    /\ IntPart(mant) = <<>> \/ IsDigitPart(IntPart(mant))
    /\ FracPart(mant) = <<>> \/ IsDigitPart(FracPart(mant))
    /\ ~(IntPart(mant) = <<>> /\ FracPart(mant) = <<>>)

ExponentOk(body) == ExpPos(body) = 0 \/ IsDigitPart(Unsigned(Exponent(body)))

ExponentValue(exps) == SignOf(exps) * DigitsValue(StripUnderscores(Unsigned(exps)))

\* the float sign * ip.fp * 10^ex
FloatValue(sign, ip, fp, ex) ==
    IF ex >= 0
    THEN PyFloat(sign * DigitsValue(ip \o fp) * Pow10(ex), Len(fp))
    ELSE PyFloat(sign * DigitsValue(ip \o fp), Len(fp) - ex)

FloatOfBody(s0, sign, body) ==
    IF MantissaOk(Mantissa(body)) /\ ExponentOk(body)
    THEN Returned(FloatValue(sign,
                             StripUnderscores(IntPart(Mantissa(body))),
                             StripUnderscores(FracPart(Mantissa(body))),
                             ExponentValue(Exponent(body))))
    ELSE Raised("ValueError", "", s0, 0)

FloatOfStripped(s0, s) == FloatOfBody(s0, SignOf(s), Unsigned(s))

\* float(s0) for a string that contains ".": the decimal literal surrounded by
\* optional white space; anything else is a ValueError
FloatOf(s0) == FloatOfStripped(s0, Strip(s0))

(***************************************************************************)
(* Python comparison of values.                                            *)
(***************************************************************************)
IsNumeric(v) == v.k \in {"bool", "int", "float"}

\* a numeric value as the pair <<n, sc>> standing for n / 10^sc
NumOf(v) ==
    CASE v.k = "bool" -> <<IF v.b THEN 1 ELSE 0, 0>>
      [] v.k = "int" -> <<v.i, 0>>
      [] v.k = "float" -> <<v.n, v.sc>>

NumLt(a, b) == NumOf(a)[1] * Pow10(NumOf(b)[2]) < NumOf(b)[1] * Pow10(NumOf(a)[2])
NumEq(a, b) == NumOf(a)[1] * Pow10(NumOf(b)[2]) = NumOf(b)[1] * Pow10(NumOf(a)[2])

\* code point order of the characters of the model
CodePointOrder ==
    <<"\t", " ", "+", ",", "-", ".">> \o AsciiDigits \o UpperLetters \o
    <<"_">> \o LowerLetters \o <<"|", "SUP2">>
Ord(c) == CHOOSE i \in 1..Len(CodePointOrder) : CodePointOrder[i] = c

RECURSIVE StrLt(_, _)
StrLt(s, t) ==
    IF t = <<>> THEN FALSE
    ELSE IF s = <<>> THEN TRUE
    ELSE IF s[1] = t[1] THEN StrLt(Tail(s), Tail(t))
    ELSE Ord(s[1]) < Ord(t[1])

\* a == b
RECURSIVE PyEq(_, _)
PyEq(a, b) ==
    IF IsNumeric(a) /\ IsNumeric(b) THEN NumEq(a, b)
    ELSE IF a.k # b.k THEN FALSE
    ELSE CASE a.k = "none" -> TRUE
           [] a.k = "str" -> a.s = b.s
           [] a.k = "list" ->
                /\ Len(a.items) = Len(b.items)
                /\ \A i \in 1..Len(a.items) : PyEq(a.items[i], b.items[i])

\* whether a < b, a <= b, ... is defined; otherwise the comparison is a TypeError
\* (list operands are never ordered in the model: they are compared only to scalars)
Orderable(a, b) ==
    \/ IsNumeric(a) /\ IsNumeric(b)
    \/ a.k = "str" /\ b.k = "str"

\* a < b, for orderable operands
PyLt(a, b) == IF IsNumeric(a) THEN NumLt(a, b) ELSE StrLt(a.s, b.s)

\* a <= b, for orderable operands
PyLe(a, b) == PyLt(a, b) \/ PyEq(a, b)

RECURSIVE NatStr(_)
NatStr(n) ==
    IF n < 10 THEN <<AsciiDigits[n + 1]>>
    ELSE NatStr(n \div 10) \o <<AsciiDigits[(n % 10) + 1]>>

RECURSIVE ZeroPad(_, _)
ZeroPad(s, w) == IF Len(s) >= w THEN s ELSE ZeroPad(<<"0">> \o s, w)

\* str(v) for a scalar; a float prints its decimal expansion, at least one
\* fractional digit (repr of a float of moderate magnitude)
StrOf(v) ==
    CASE v.k = "none" -> <<"N", "o", "n", "e">>
      [] v.k = "bool" -> IF v.b THEN <<"T", "r", "u", "e">>
                         ELSE <<"F", "a", "l", "s", "e">>
      [] v.k = "int" -> IF v.i < 0 THEN <<"-">> \o NatStr(-v.i) ELSE NatStr(v.i)
      [] v.k = "float" ->
            LET neg == v.n < 0
                m == IF neg THEN -v.n ELSE v.n
                ipart == m \div Pow10(v.sc)
                fpart == m % Pow10(v.sc)
            IN (IF neg THEN <<"-">> ELSE <<>>) \o NatStr(ipart) \o <<".">> \o
               (IF v.sc = 0 THEN <<"0">> ELSE ZeroPad(NatStr(fpart), v.sc))
      [] v.k = "str" -> v.s

(***************************************************************************)
(* String literals of the parser.                                          *)
(***************************************************************************)
S_eq == <<"e", "q">>
S_ne == <<"n", "e">>
S_lt == <<"l", "t">>
S_lte == <<"l", "t", "e">>
S_gt == <<"g", "t">>
S_gte == <<"g", "t", "e">>
S_like == <<"l", "i", "k", "e">>
S_ilike == <<"i", "l", "i", "k", "e">>
S_in == <<"i", "n">>
S_between == <<"b", "e", "t", "w", "e", "e", "n">>
S_is_null == <<"i", "s", "_", "n", "u", "l", "l">>
S_is_not_null == <<"i", "s", "_", "n", "o", "t", "_", "n", "u", "l", "l">>
S_isnull == <<"i", "s", "n", "u", "l", "l">>
S_isnotnull == <<"i", "s", "n", "o", "t", "n", "u", "l", "l">>
S_and == <<"a", "n", "d">>
S_or == <<"o", "r">>
S_null == <<"n", "u", "l", "l">>
S_none == <<"n", "o", "n", "e">>
S_true == <<"t", "r", "u", "e">>
S_false == <<"f", "a", "l", "s", "e">>
Comma == <<",">>
Pipe == <<"|">>
DUnder == <<"_", "_">>

\* membership of x in a Python list/tuple of strings
InSeq(x, seq) == \E i \in 1..Len(seq) : seq[i] = x

(***************************************************************************)
(* Specification tree.                                                     *)
(*   leaf:      [k |-> "leaf", cls, field, operator, value]                *)
(*              (a BetweenSpecification also keeps min_value, max_value)   *)
(*   composite: [k |-> "AND" | "OR", left, right], [k |-> "NOT", spec]     *)
(* cls names the class of the leaf, which selects its _compare_values.     *)
(***************************************************************************)
FilterSpecification(cls, field, operator, value) ==
    [k |-> "leaf", cls |-> cls, field |-> field, operator |-> operator,
     value |-> value]

EqualSpecification(field, value) == FilterSpecification("Equal", field, S_eq, value)
NotEqualSpecification(field, value) ==
    FilterSpecification("NotEqual", field, S_ne, value)
LessThanSpecification(field, value) ==
    FilterSpecification("LessThan", field, S_lt, value)
LessThanOrEqualSpecification(field, value) ==
    FilterSpecification("LessThanOrEqual", field, S_lte, value)
GreaterThanSpecification(field, value) ==
    FilterSpecification("GreaterThan", field, S_gt, value)
GreaterThanOrEqualSpecification(field, value) ==
    FilterSpecification("GreaterThanOrEqual", field, S_gte, value)
LikeSpecification(field, value) == FilterSpecification("Like", field, S_like, value)
InSpecification(field, values) == FilterSpecification("In", field, S_in, values)
\* variant of BetweenSpecification: value keeps the lower bound only
BetweenSpecification_ValueIsMin(field, min_value, max_value) ==
    [k |-> "leaf", cls |-> "Between", field |-> field, operator |-> S_between,
     value |-> PyList(<<min_value>>),
     min_value |-> min_value, max_value |-> max_value]
BetweenSpecification(field, min_value, max_value) ==
    [k |-> "leaf", cls |-> "Between", field |-> field, operator |-> S_between,
     value |-> PyList(<<min_value, max_value>>),
     min_value |-> min_value, max_value |-> max_value]
IsNullSpecification(field) == FilterSpecification("IsNull", field, S_is_null, PyNone)
IsNotNullSpecification(field) ==
    FilterSpecification("IsNotNull", field, S_is_not_null, PyNone)

AndSpecification(left, right) == [k |-> "AND", left |-> left, right |-> right]
OrSpecification(left, right) == [k |-> "OR", left |-> left, right |-> right]
NotSpecification(spec) == [k |-> "NOT", spec |-> spec]

and_spec(self, other) == AndSpecification(self, other)
\* variant of and_: the alias builds an OR node
and_AsOr(self, other) == OrSpecification(self, other)
and_(self, other) == and_spec(self, other)
or_spec(self, other) == OrSpecification(self, other)
not_spec(self) == NotSpecification(self)

\* SpecificationFactory._operators, in declaration order
supported_operators ==
    <<S_eq, S_ne, S_lt, S_lte, S_gt, S_gte, S_like, S_in, S_between,
      S_is_null, S_is_not_null>>

\* SpecificationFactory.create
SpecificationFactory_create(field, operator, value) ==
    IF ~InSeq(operator, supported_operators)
    THEN Raised("ValueError", "", operator, 0)
    ELSE IF operator = S_between
    THEN IF value.k # "list" \/ Len(value.items) # 2
         THEN Raised("ValueError", "", operator, 0)
         ELSE Returned(BetweenSpecification(field, value.items[1], value.items[2]))
    ELSE IF operator = S_is_null THEN Returned(IsNullSpecification(field))
    ELSE IF operator = S_is_not_null THEN Returned(IsNotNullSpecification(field))
    ELSE Returned(
        CASE operator = S_eq -> EqualSpecification(field, value)
          [] operator = S_ne -> NotEqualSpecification(field, value)
          [] operator = S_lt -> LessThanSpecification(field, value)
          [] operator = S_lte -> LessThanOrEqualSpecification(field, value)
          [] operator = S_gt -> GreaterThanSpecification(field, value)
          [] operator = S_gte -> GreaterThanOrEqualSpecification(field, value)
          [] operator = S_like -> LikeSpecification(field, value)
          [] operator = S_in -> InSpecification(field, value))

(***************************************************************************)
(* Evaluator.  A candidate is a function from its attribute names to their *)
(* values; an outcome is Returned(TRUE|FALSE) or a raise.                  *)
(***************************************************************************)
\* variant of GetAttr: getattr(candidate, field, None)
GetAttr_DefaultNone(cand, field) ==
    IF field \in DOMAIN cand THEN Returned(cand[field]) ELSE Returned(PyNone)

\* getattr(candidate, field): AttributeError when the attribute is missing
GetAttr(cand, field) ==
    IF field \in DOMAIN cand THEN Returned(cand[field])
    ELSE Raised("AttributeError", "", field, 0)

TypeError == Raised("TypeError", "", <<>>, 0)

\* variant of BetweenCompare: both bounds exclusive
BetweenCompare_Exclusive(min_value, field_value, max_value) ==
    /\ Orderable(min_value, field_value) /\ PyLt(min_value, field_value)
    /\ Orderable(field_value, max_value) /\ PyLt(field_value, max_value)

\* BetweenSpecification._compare_values: min <= field_value <= max, the second
\* comparison evaluated only when the first is true; TypeError gives False
BetweenCompare(min_value, field_value, max_value) ==
    IF ~Orderable(min_value, field_value) THEN FALSE
    ELSE IF ~PyLe(min_value, field_value) THEN FALSE
    ELSE IF ~Orderable(field_value, max_value) THEN FALSE
    ELSE PyLe(field_value, max_value)

\* InSpecification._compare_values: field_value in filter_values
InCompare(field_value, filter_values) ==
    CASE filter_values.k = "list" ->
            Returned(\E i \in 1..Len(filter_values.items) :
                        PyEq(field_value, filter_values.items[i]))
      [] filter_values.k = "str" ->
            IF field_value.k = "str"
            THEN Returned(Contains(filter_values.s, field_value.s))
            ELSE TypeError
      [] OTHER -> TypeError

\* variant of OrderingCompare: the TypeError is not caught
OrderingCompare_Uncaught(orderable, verdict) ==
    IF orderable THEN Returned(verdict) ELSE TypeError

\* the try / except TypeError of the lt, lte, gt and gte leaves: the verdict
\* of the comparison when it is defined, False when it raises TypeError
OrderingCompare(orderable, verdict) ==
    IF orderable THEN Returned(verdict) ELSE Returned(FALSE)

\* _compare_values of the leaf's class
CompareValues(spec, field_value) ==
    LET filter_value == spec.value
    IN CASE spec.cls \in {"Base", "Equal"} ->
                Returned(PyEq(field_value, filter_value))
         [] spec.cls = "NotEqual" -> Returned(~PyEq(field_value, filter_value))
         [] spec.cls = "LessThan" ->
                OrderingCompare(Orderable(field_value, filter_value),
                                PyLt(field_value, filter_value))
         [] spec.cls = "LessThanOrEqual" ->
                OrderingCompare(Orderable(field_value, filter_value),
                                PyLe(field_value, filter_value))
         [] spec.cls = "GreaterThan" ->
                OrderingCompare(Orderable(field_value, filter_value),
                                PyLt(filter_value, field_value))
         [] spec.cls = "GreaterThanOrEqual" ->
                OrderingCompare(Orderable(field_value, filter_value),
                                PyLe(filter_value, field_value))
         [] spec.cls = "Like" ->
                IF field_value.k = "none" THEN Returned(FALSE)
                ELSE Returned(Contains(Lower(StrOf(field_value)),
                                       Lower(StrOf(filter_value))))
         [] spec.cls = "In" -> InCompare(field_value, filter_value)
         [] spec.cls = "Between" ->
                Returned(BetweenCompare(spec.min_value, field_value, spec.max_value))
         [] spec.cls = "IsNull" -> Returned(field_value.k = "none")
         [] spec.cls = "IsNotNull" -> Returned(field_value.k # "none")

\* the try block of FilterSpecification.is_satisfied_by, got = getattr(...)
LeafCompare(spec, got) ==
    IF ~got.ok THEN Returned(FALSE) ELSE CompareValues(spec, got.val)

\* FilterSpecification.is_satisfied_by: a missing attribute is not satisfied
LeafIsSatisfiedBy(spec, cand) == LeafCompare(spec, GetAttr(cand, spec.field))

\* is_satisfied_by over the tree; Python's "l and r" / "l or r" evaluate r
\* only when l does not decide the result
RECURSIVE IsSatisfiedBy(_, _)
AndThen(l, right, cand) ==
    IF ~l.ok \/ ~l.val THEN l ELSE IsSatisfiedBy(right, cand)
OrElse(l, right, cand) ==
    IF ~l.ok \/ l.val THEN l ELSE IsSatisfiedBy(right, cand)
\* variant of Negated: the child's result is returned as it is
Negated_Unchanged(r) == r
Negated(r) == IF ~r.ok THEN r ELSE Returned(~r.val)

IsSatisfiedBy(spec, cand) ==
    CASE spec.k = "leaf" -> LeafIsSatisfiedBy(spec, cand)
      [] spec.k = "AND" -> AndThen(IsSatisfiedBy(spec.left, cand), spec.right, cand)
      [] spec.k = "OR" -> OrElse(IsSatisfiedBy(spec.left, cand), spec.right, cand)
      [] spec.k = "NOT" -> Negated(IsSatisfiedBy(spec.spec, cand))

(***************************************************************************)
(* FilterParser.                                                           *)
(***************************************************************************)
supported_connectors == <<S_and, S_or>>

\* FilterParser.operator_mapping: the keys and the value each key maps to
operator_mapping_keys ==
    <<S_gt, S_gte, S_lt, S_lte, S_eq, S_ne, S_like, S_ilike, S_in, S_between,
      S_isnull, S_isnotnull>>
operator_mapping_values ==
    <<S_gt, S_gte, S_lt, S_lte, S_eq, S_ne, S_like, S_ilike, S_in, S_between,
      S_isnull, S_isnotnull>>
operator_mapping(operator) ==
    operator_mapping_values[
        CHOOSE i \in 1..Len(operator_mapping_keys) : operator_mapping_keys[i] = operator]

InvalidValueObjectException(vot, inv, code) ==
    Raised("InvalidValueObjectException", vot, inv, code)

\* the last two cases of _convert_single_value: float when "." is in the
\* string and float() accepts it, the string itself otherwise
FloatOrStr(value_str, f) == IF f.ok THEN f ELSE Returned(PyStr(value_str))
ConvertFloatOrStr(value_str) ==
    IF Contains(value_str, <<".">>) THEN FloatOrStr(value_str, FloatOf(value_str))
    ELSE Returned(PyStr(value_str))

ConvertLowered(value_str, low) ==
    IF low \in {S_null, S_none, <<>>} THEN Returned(PyNone)
    ELSE IF low \in {S_true, S_false} THEN Returned(PyBool(low = S_true))
    ELSE IF IsDigit(value_str) THEN IntOf(value_str, 1)
    ELSE IF StartsWith(value_str, <<"-">>) /\ IsDigit(Tail(value_str))
    THEN IntOf(Tail(value_str), -1)
    ELSE ConvertFloatOrStr(value_str)

\* FilterParser._convert_single_value
ConvertSingleValue(value_str) == ConvertLowered(value_str, Lower(value_str))

\* the outcome of a loop over outcomes: the first raise, if any
HasFailure(outs) == \E i \in 1..Len(outs) : ~outs[i].ok
FirstFailure(outs) ==
    outs[CHOOSE i \in 1..Len(outs) : ~outs[i].ok /\ \A j \in 1..(i - 1) : outs[j].ok]

ConvertedList(outs) ==
    IF HasFailure(outs) THEN FirstFailure(outs)
    ELSE Returned(PyList([i \in 1..Len(outs) |-> outs[i].val]))

\* [self._convert_single_value(v.strip()) for v in values]
ConvertEach(values) ==
    ConvertedList([i \in 1..Len(values) |-> ConvertSingleValue(Strip(values[i]))])

\* FilterParser._parse_value
ParseValue(value_str, operator) ==
    IF operator \in {S_is_null, S_is_not_null} THEN Returned(PyNone)
    ELSE IF operator = S_between /\ Len(Split(value_str, Pipe, -1)) # 2
    THEN InvalidValueObjectException("BetweenValue", value_str, 11003010)
    ELSE IF operator \in {S_in, S_between}
    THEN ConvertEach(Split(value_str, Pipe, -1))
    ELSE ConvertSingleValue(value_str)

\* SpecificationFactory.create(field, operator, parsed_value), reached only
\* when _parse_value returned
CreateLeaf(field, operator, parsed_value) ==
    IF ~parsed_value.ok THEN parsed_value
    ELSE SpecificationFactory_create(field, operator, parsed_value.val)

\* return specification, connector
WithConnector(created, connector) ==
    IF ~created.ok THEN created
    ELSE Returned([spec |-> created.val, connector |-> connector])

\* "if connector": not None and not the empty string
Truthy(connector) == connector.k = "str" /\ connector.s # <<>>

\* variant of ParseSingleFields: the connector is validated before the operator
ParseSingleFields_ConnectorFirst(field, operator, value_str, connector) ==
    IF Truthy(connector) /\ ~InSeq(connector.s, supported_connectors)
    THEN InvalidValueObjectException("LogicalConnector", connector.s, 11003009)
    ELSE IF ~InSeq(operator, supported_operators)
    THEN InvalidValueObjectException("FilterOperator", operator, 11003008)
    ELSE WithConnector(CreateLeaf(field, operator, ParseValue(value_str, operator)),
                       connector)

\* variant of ParseSingleFields: the connector is not validated
ParseSingleFields_NoConnectorCheck(field, operator, value_str, connector) ==
    IF ~InSeq(operator, supported_operators)
    THEN InvalidValueObjectException("FilterOperator", operator, 11003008)
    ELSE WithConnector(CreateLeaf(field, operator, ParseValue(value_str, operator)),
                       connector)

\* _parse_single_filter from the validation of the operator on
ParseSingleFields(field, operator, value_str, connector) ==
    IF ~InSeq(operator, supported_operators)
    THEN InvalidValueObjectException("FilterOperator", operator, 11003008)
    ELSE IF Truthy(connector) /\ ~InSeq(connector.s, supported_connectors)
    THEN InvalidValueObjectException("LogicalConnector", connector.s, 11003009)
    ELSE WithConnector(CreateLeaf(field, operator, ParseValue(value_str, operator)),
                       connector)

\* _parse_single_filter after the split; connector is PyNone when the entry
\* has no fourth part
ParseSingleParts(filter_str, parts) ==
    IF Len(parts) < 3
    THEN InvalidValueObjectException("Filter", filter_str, 11003007)
    ELSE ParseSingleFields(Strip(parts[1]), Lower(Strip(parts[2])), Strip(parts[3]),
                           IF Len(parts) > 3 THEN PyStr(Lower(Strip(parts[4])))
                           ELSE PyNone)

\* variant of ParseSingleFilter: the entry is split at every comma
ParseSingleFilter_SplitAll(filter_str) ==
    ParseSingleParts(filter_str, Split(filter_str, Comma, -1))

\* FilterParser._parse_single_filter: Returned([spec, connector]) or a raise
ParseSingleFilter(filter_str) ==
    ParseSingleParts(filter_str, Split(filter_str, Comma, 3))

\* variant of ConnectorAt: the connector of the following entry is used
ConnectorAt_OffByOne(connectors, i) ==
    IF i < Len(connectors) THEN connectors[i + 1] ELSE S_and

\* connectors[i-1] if i-1 < len(connectors) else "and", i counted from 0
ConnectorAt(connectors, i) ==
    IF i - 1 < Len(connectors) THEN connectors[i] ELSE S_and

\* one iteration of the loop of _combine_specifications
CombineStep(acc, connector, spec) ==
    IF connector = S_and THEN and_spec(acc, spec)
    ELSE IF connector = S_or THEN or_spec(acc, spec)
    ELSE acc

\* the loop of _combine_specifications from index i (counted from 0) on
RECURSIVE CombineLoop(_, _, _, _)
CombineLoop(specifications, connectors, i, acc) ==
    IF i >= Len(specifications) THEN acc
    ELSE CombineLoop(specifications, connectors, i + 1,
                     CombineStep(acc, ConnectorAt(connectors, i),
                                 specifications[i + 1]))

\* FilterParser._combine_specifications
CombineSpecifications(specifications, connectors) ==
    IF Len(specifications) = 0 THEN PyNone
    ELSE IF Len(specifications) = 1 THEN specifications[1]
    ELSE CombineLoop(specifications, connectors, 1, specifications[1])

\* the lists built by the loop of _parse_list_filters: every specification,
\* and the connectors that are truthy
SpecificationsOf(ones) == [i \in 1..Len(ones) |-> ones[i].val.spec]
ConnectorsOf(ones) ==
    LET kept == SelectSeq(ones, LAMBDA one : Truthy(one.val.connector))
    IN [i \in 1..Len(kept) |-> kept[i].val.connector.s]

\* _parse_list_filters after its loop; ones[i] is the outcome of
\* _parse_single_filter on entry i, and the first raise ends the loop
CollectList(ones) ==
    IF HasFailure(ones) THEN FirstFailure(ones)
    ELSE IF Len(ones) = 1 THEN Returned(ones[1].val.spec)
    ELSE Returned(CombineSpecifications(SpecificationsOf(ones), ConnectorsOf(ones)))

\* FilterParser._parse_list_filters
ParseListFilters(flt) ==
    IF flt = <<>> THEN Returned(PyNone)
    ELSE CollectList([i \in 1..Len(flt) |-> ParseSingleFilter(flt[i])])

\* field and operator of a key of the map syntax
DictField(field_expr) ==
    IF Contains(field_expr, DUnder) THEN Split(field_expr, DUnder, 1)[1]
    ELSE field_expr
DictOperator(field_expr) ==
    IF Contains(field_expr, DUnder) THEN Lower(Split(field_expr, DUnder, 1)[2])
    ELSE S_eq

\* "Map operator if needed"
MapOperator(operator) ==
    IF InSeq(operator, operator_mapping_keys) THEN operator_mapping(operator)
    ELSE operator

\* the body of the loop of _parse_dict_filters from the validation on
ParseDictEntry(field, operator, value) ==
    IF ~InSeq(operator, supported_operators)
    THEN InvalidValueObjectException("FilterOperator", operator, 11003008)
    ELSE CreateLeaf(field, operator, ParseValue(value, operator))

\* one iteration of the loop of _parse_dict_filters on the item
\* <<field_expr, value>>
ParseDictItem(field_expr, value) ==
    ParseDictEntry(DictField(field_expr), MapOperator(DictOperator(field_expr)),
                   value)

\* result = result.and_(spec) for spec in specifications[1:]
RECURSIVE AndFold(_, _)
AndFold(acc, rest) ==
    IF rest = <<>> THEN acc ELSE AndFold(and_(acc, Head(rest)), Tail(rest))

\* _parse_dict_filters after its loop; the first raise ends the loop
CollectDict(outs) ==
    IF HasFailure(outs) THEN FirstFailure(outs)
    ELSE IF Len(outs) = 1 THEN Returned(outs[1].val)
    ELSE Returned(AndFold(outs[1].val, [i \in 1..(Len(outs) - 1) |-> outs[i + 1].val]))

\* FilterParser._parse_dict_filters; the dict is the sequence of its items in
\* insertion order
ParseDictFilters(filters_dict) ==
    IF filters_dict = <<>> THEN Returned(PyNone)
    ELSE CollectDict([i \in 1..Len(filters_dict) |->
                        ParseDictItem(filters_dict[i][1], filters_dict[i][2])])

\* FilterParser.parse_filters
parse_filters(syn, flt) ==
    IF flt = <<>> THEN Returned(PyNone)
    ELSE IF syn = "map" THEN ParseDictFilters(flt)
    ELSE ParseListFilters(flt)

(***************************************************************************)
(* Inputs of the parser runs.                                              *)
(***************************************************************************)
F_a == <<"a">>
F_b == <<"b">>
F_c == <<"c">>

\* entries of the list syntax: "field,operator,value[,connector]"
E_a_eq_1_or == <<"a", ",", "e", "q", ",", "1", ",", "o", "r">>
E_b_gt_2_and == <<"b", ",", "g", "t", ",", "2", ",", "a", "n", "d">>
E_c_like_x == <<"c", ",", "l", "i", "k", "e", ",", "x">>
E_spaced ==
    <<" ", "a", " ", ",", " ", "N", "E", " ", ",", " ", "1", " ", ",", " ",
      "O", "R", " ">>
E_empty_connector == <<"b", ",", "e", "q", ",", "2", ",">>
E_blank_connector ==
    <<"c", ",", "i", "s", "_", "n", "u", "l", "l", ",", "3", ",", " ">>
E_bad_operator == <<"a", ",", "f", "o", "o", ",", "1", ",", "a", "n", "d">>
E_bad_connector == <<"a", ",", "e", "q", ",", "1", ",", "X", "O", "R", " ">>
E_bad_both ==
    <<"b", ",", " ", "F", "o", "o", " ", ",", "1", ",", "x", "o", "r">>
E_two_parts == <<"a", ",", "e", "q">>
E_one_part == <<"a">>
E_five_parts ==
    <<"a", ",", "e", "q", ",", "1", ",", "a", "n", "d", ",", "m", "o", "r",
      "e">>

ListEntries ==
    {E_a_eq_1_or, E_b_gt_2_and, E_c_like_x, E_spaced,
     E_empty_connector, E_blank_connector, E_bad_operator, E_bad_connector,
     E_bad_both, E_two_parts, E_one_part, E_five_parts}

\* items of the map syntax: <<key, raw value>>
M_a == <<<<"a">>,
    <<"1">>>>
M_b_gte == <<<<"b", "_", "_", "g", "t", "e">>,
    <<"2">>>>
M_c_LIKE == <<<<"c", "_", "_", "L", "I", "K", "E">>,
    <<"x">>>>
M_a_eq == <<<<"a", "_", "_", "e", "q">>,
    <<"2">>>>
M_a_isnull == <<<<"a", "_", "_", "i", "s", "n", "u", "l", "l">>,
    <<"x">>>>
M_b_IsNotNull == <<<<"b", "_", "_", "I", "s", "N", "o", "t", "N", "u", "l", "l">>,
    <<>>>>
M_c_ilike == <<<<"c", "_", "_", "i", "l", "i", "k", "e">>,
    <<"X">>>>
M_a_is_null == <<<<"a", "_", "_", "i", "s", "_", "n", "u", "l", "l">>,
    <<"1">>>>
M_b_foo == <<<<"b", "_", "_", "f", "o", "o">>,
    <<"1">>>>
M_a_b_eq == <<<<"a", "_", "_", "b", "_", "_", "e", "q">>,
    <<"1">>>>
M_c_in == <<<<"c", "_", "_", "i", "n">>,
    <<"x", "|", "x", "y">>>>

MapItems ==
    {M_a, M_b_gte, M_c_LIKE, M_a_eq,
     M_a_isnull, M_b_IsNotNull, M_c_ilike, M_a_is_null,
     M_b_foo, M_a_b_eq, M_c_in}

\* the sequences of 1..n elements of S
SeqsUpTo(S, n) == UNION {[1..m -> S] : m \in 1..n}

ListInputs == SeqsUpTo(ListEntries, MaxEntries)

\* a dict holds each key once
MapInputs ==
    {m \in SeqsUpTo(MapItems, MaxEntries) :
        \A i, j \in 1..Len(m) : i # j => m[i][1] # m[j][1]}

\* candidates: objects with some of the attributes a, b, c
Candidates ==
    {(F_a :> PyInt(1)) @@ (F_b :> PyInt(3)) @@ (F_c :> PyStr(<<"x", "y">>)),
     (F_a :> PyInt(2)) @@ (F_b :> PyInt(2)) @@ (F_c :> PyStr(<<"X">>)),
     (F_a :> PyInt(1)) @@ (F_b :> PyNone),
     (F_a :> PyBool(TRUE)) @@ (F_c :> PyInt(3)),
     (F_a :> PyInt(0)) @@ (F_b :> PyInt(2)),
     (F_a :> PyInt(3)),
     (F_a :> PyInt(4)) @@ (F_c :> PyStr(<<"a", "b", "c">>)),
     (F_a :> PyFloat(15, 1)),
     (F_a :> PyStr(<<"x">>)),
     (F_a :> PyNone),
     <<>>}

(***************************************************************************)
(* Inputs of the value runs: one entry on field a, in either syntax, whose *)
(* raw value is a scalar token or "|"-separated tokens.                    *)
(***************************************************************************)
T_null == <<"n", "u", "l", "l">>
T_Null == <<"N", "u", "l", "l">>
T_None == <<"N", "o", "n", "e">>
T_empty == <<>>
T_true == <<"t", "r", "u", "e">>
T_FALSE == <<"F", "A", "L", "S", "E">>
T_5 == <<"5">>
T_neg5 == <<"-", "5">>
T_007 == <<"0", "0", "7">>
T_dash == <<"-">>
T_plus5 == <<"+", "5">>
T_sp5 == <<" ", "5">>
T_1p5 == <<"1", ".", "5">>
T_p5 == <<".", "5">>
T_5p == <<"5", ".">>
T_neg1p50 == <<"-", "1", ".", "5", "0">>
T_1p5e1 == <<"1", ".", "5", "e", "1">>
T_1p2p3 == <<"1", ".", "2", ".", "3">>
T_dot == <<".">>
T_abc == <<"a", "b", "c">>
T_1e5 == <<"1", "e", "5">>
T_sup2 == <<"SUP2">>
T_neg_sup2 == <<"-", "SUP2">>
T_1_0p5 == <<"1", "_", "0", ".", "5">>

ScalarTokens ==
    {T_null, T_Null, T_None, T_empty, T_true, T_FALSE,
     T_5, T_neg5, T_007, T_dash, T_plus5, T_sp5,
     T_1p5, T_p5, T_5p, T_neg1p50, T_1p5e1, T_1p2p3,
     T_dot, T_abc, T_1e5, T_sup2, T_neg_sup2, T_1_0p5}

\* pieces joined into "p|q" raw values
Pieces == {T_empty, T_5, T_1p5, T_abc, T_sup2, <<"1">>, <<"3">>, <<" ", "3", " ">>}

RawValues ==
    ScalarTokens \cup {p \o Pipe \o q : p, q \in Pieces}
                 \cup {<<"1", "|", "2", "|", "3">>, <<"|", "|">>}

ValueOperators == {S_eq, S_gte, S_like, S_in, S_between, S_is_null}

(***************************************************************************)
(* The parser runs: parse_filters on an input, then is_satisfied_by of the *)
(* returned specification on a candidate.                                  *)
(***************************************************************************)
Init ==
    /\ syntax \in {"list", "map"}
    /\ filters \in IF syntax = "list" THEN ListInputs ELSE MapInputs
    /\ pc = "ready"
    /\ result = Idle
    /\ candidate = Idle
    /\ satisfied = Idle
    /\ leaf = Idle
    /\ TreeIdle /\ SortIdle /\ BuilderIdle /\ RestIdle

ParseFilters ==
    /\ pc = "ready"
    /\ result' = parse_filters(syntax, filters)
    /\ pc' = "parsed"
    /\ UNCHANGED <<syntax, filters, candidate, satisfied, leaf,
                   treeVars, restVars, sortVars, builderVars>>

Evaluate(c) ==
    /\ pc = "parsed"
    /\ result.ok
    /\ result.val # PyNone
    /\ candidate' = c
    /\ satisfied' = IsSatisfiedBy(result.val, c)
    /\ pc' = "evaluated"
    /\ UNCHANGED <<syntax, filters, result, leaf, treeVars, restVars, sortVars, builderVars>>

Next ==
    \/ ParseFilters
    \/ \E c \in Candidates : Evaluate(c)

Spec == Init /\ [][Next]_vars

\* the value runs: the same operations on the one-entry inputs
InitValue ==
    /\ syntax \in {"list", "map"}
    /\ \E operator \in ValueOperators, raw \in RawValues :
          filters = IF syntax = "list"
                    THEN <<F_a \o Comma \o operator \o Comma \o raw>>
                    ELSE << <<F_a \o DUnder \o operator, raw>> >>
    /\ pc = "ready"
    /\ result = Idle
    /\ candidate = Idle
    /\ satisfied = Idle
    /\ leaf = Idle
    /\ TreeIdle /\ SortIdle /\ BuilderIdle /\ RestIdle

SpecValue == InitValue /\ [][Next]_vars

(***************************************************************************)
(* The evaluator runs: a leaf built through SpecificationFactory.create,   *)
(* or FilterSpecification constructed directly, evaluated on a candidate.  *)
(***************************************************************************)
F_z == <<"z">>

EvalFields == {F_a, F_c, F_z}

EvalValues ==
    {PyInt(1), PyStr(<<"x">>), PyNone, PyBool(TRUE), PyFloat(15, 1),
     PyList(<<PyInt(1), PyInt(3)>>)}

\* str() of a list is not modelled: a like leaf carries a scalar
Constructible(operator, value) == operator = S_like => value.k # "list"

OperatorTags == {supported_operators[i] : i \in 1..Len(supported_operators)}

EvalLeaves ==
    {SpecificationFactory_create(f, op, v).val :
        <<f, op, v>> \in {t \in EvalFields \X OperatorTags \X EvalValues :
                            /\ Constructible(t[2], t[3])
                            /\ SpecificationFactory_create(t[1], t[2], t[3]).ok}}
    \cup {FilterSpecification("Base", f, op, v) :
            <<f, op, v>> \in EvalFields \X OperatorTags \X EvalValues}

InitEval ==
    /\ leaf \in EvalLeaves
    /\ pc = "built"
    /\ syntax = Idle
    /\ filters = Idle
    /\ result = Idle
    /\ candidate = Idle
    /\ satisfied = Idle
    /\ TreeIdle /\ SortIdle /\ BuilderIdle /\ RestIdle

EvaluateLeaf(c) ==
    /\ pc = "built"
    /\ candidate' = c
    /\ satisfied' = IsSatisfiedBy(leaf, c)
    /\ pc' = "evaluated"
    /\ UNCHANGED <<syntax, filters, result, leaf, treeVars, restVars, sortVars, builderVars>>

\* FilterSpecification.to_expression
FilterSpecification_to_expression(spec) ==
    [field |-> spec.field, operator |-> spec.operator, value |-> spec.value]

\* SpecificationFactory.create(e["field"], e["operator"], e["value"])
CreateFrom(e) == SpecificationFactory_create(e.field, e.operator, e.value)

\* is_satisfied_by of the created leaf, when the factory returned one
CreatedVerdict(created, c) ==
    IF created.ok THEN IsSatisfiedBy(created.val, c) ELSE created

\* e = leaf.to_expression(); the leaf and the leaf the factory creates from e
\* are evaluated on the same candidate (for the leaves whose tag and value
\* the factory's classes can evaluate in the model, see Constructible)
RoundTrip(c) ==
    /\ pc = "built"
    /\ Constructible(leaf.operator, leaf.value)
    /\ candidate' = c
    /\ satisfied' = IsSatisfiedBy(leaf, c)
    /\ rebuilt' = [spec |-> CreateFrom(FilterSpecification_to_expression(leaf)),
                   satisfied |->
                       CreatedVerdict(
                           CreateFrom(FilterSpecification_to_expression(leaf)), c)]
    /\ pc' = "rebuilt"
    /\ UNCHANGED <<syntax, filters, result, leaf, treeVars, nodeVars, uowVars,
                   repoVars, busVars, sortVars, builderVars>>

NextEval ==
    \/ \E c \in Candidates : EvaluateLeaf(c)
    \/ \E c \in Candidates : RoundTrip(c)

SpecEval == InitEval /\ [][NextEval]_vars

(***************************************************************************)
(* Properties.  The segments of an entry are located by counting its      *)
(* commas, independently of Split.                                         *)
(***************************************************************************)
Positions(e, c) == {i \in 1..Len(e) : e[i] = c}

\* the position of the n-th occurrence of c in e
NthPosition(e, c, n) ==
    CHOOSE i \in Positions(e, c) : Cardinality({j \in Positions(e, c) : j <= i}) = n

\* the text between the (n-1)-th comma and the n-th comma (or the end)
Segment(e, n) ==
    LET from == IF n = 1 THEN 1 ELSE NthPosition(e, ",", n - 1) + 1
        to == IF Cardinality(Positions(e, ",")) >= n
              THEN NthPosition(e, ",", n) - 1 ELSE Len(e)
    IN SubSeq(e, from, to)

\* everything after the third comma
AfterThirdComma(e) == SubSeq(e, NthPosition(e, ",", 3) + 1, Len(e))

HasFourthSegment(e) == Cardinality(Positions(e, ",")) >= 3
HasThreeSegments(e) == Cardinality(Positions(e, ",")) >= 2

\* the connector written on an entry, trimmed and lower-cased; <<>> when the
\* entry has no fourth segment
WrittenConnector(e) ==
    IF HasFourthSegment(e) THEN Lower(Strip(AfterThirdComma(e))) ELSE <<>>

\* the operator token written on an entry, trimmed and lower-cased
WrittenOperator(e) == Lower(Strip(Segment(e, 2)))

\* an entry is well-formed when it parses on its own
WellFormed(e) == parse_filters("list", <<e>>).ok
LeafOfEntry(e) == parse_filters("list", <<e>>).val

AllWellFormed(flt) == \A i \in 1..Len(flt) : WellFormed(flt[i])

\* l c r, where a connector other than "or" joins with AND
Joined(c, l, r) ==
    IF c = S_or THEN [k |-> "OR", left |-> l, right |-> r]
    ELSE [k |-> "AND", left |-> l, right |-> r]

\* (((e1 c1 e2) c2 e3) ... c(n-1) en), ci the connector written on entry i
RECURSIVE LeftNested(_, _)
LeftNested(flt, n) ==
    IF n = 1 THEN LeafOfEntry(flt[1])
    ELSE Joined(WrittenConnector(flt[n - 1]), LeftNested(flt, n - 1),
                LeafOfEntry(flt[n]))

ExplicitConnectors(flt) ==
    \A i \in 1..(Len(flt) - 1) : WrittenConnector(flt[i]) \in {S_and, S_or}

\* C1: a list of n >= 2 well-formed entries whose non-final entries all carry
\* an explicit connector parses to the strict left-nested tree
\* (((e1 c1 e2) c2 e3) ... c(n-1) en); no AND-over-OR precedence is applied.
C1_LeftFold ==
    (/\ pc # "ready" /\ syntax = "list" /\ Len(filters) >= 2
     /\ AllWellFormed(filters) /\ ExplicitConnectors(filters))
    => result = Returned(LeftNested(filters, Len(filters)))

\* [a,or | b,and | c] has been parsed to (a OR b) AND c
C1_Witness ==
    /\ pc = "parsed" /\ syntax = "list" /\ Len(filters) = 3
    /\ AllWellFormed(filters)
    /\ WrittenConnector(filters[1]) = S_or
    /\ WrittenConnector(filters[2]) = S_and
    /\ result.ok /\ result.val.k = "AND" /\ result.val.left.k = "OR"
    /\ result.val.right = LeafOfEntry(filters[3])

\* C2: in every list of well-formed entries the junction between entry i and
\* entry i+1 uses the connector written on entry i, and AND when entry i
\* carries none, whatever is written on the other entries.
C2_JunctionUsesOwnConnector ==
    (/\ pc # "ready" /\ syntax = "list" /\ AllWellFormed(filters)
     /\ \A i \in 1..Len(filters) :
            \/ ~HasFourthSegment(filters[i])
            \/ WrittenConnector(filters[i]) \in {S_and, S_or})
    => result = Returned(LeftNested(filters, Len(filters)))

\* a list whose first entry carries no connector and whose second carries "or"
C2_Witness ==
    /\ pc = "parsed" /\ syntax = "list" /\ Len(filters) = 3
    /\ AllWellFormed(filters)
    /\ ~HasFourthSegment(filters[1])
    /\ WrittenConnector(filters[2]) = S_or
    /\ result.ok

(***************************************************************************)
(* Map syntax: the key is read by locating its first "__".                 *)
(***************************************************************************)
DUnderPositions(key) ==
    {i \in 1..(Len(key) - 1) : key[i] = "_" /\ key[i + 1] = "_"}
FirstDUnder(key) ==
    CHOOSE i \in DUnderPositions(key) : \A j \in DUnderPositions(key) : i <= j

\* the field named by a key: the key itself, or its text before the first "__"
KeyField(key) ==
    IF DUnderPositions(key) = {} THEN key ELSE SubSeq(key, 1, FirstDUnder(key) - 1)

\* the operator token of a key, lower-cased: "eq" for a bare key
KeyOperator(key) ==
    IF DUnderPositions(key) = {} THEN S_eq
    ELSE Lower(SubSeq(key, FirstDUnder(key) + 2, Len(key)))

\* a valid key: bare, or field__op with op one of the operator tags
ValidKey(key) == KeyOperator(key) \in OperatorTags

ItemParses(item) == parse_filters("map", <<item>>).ok
LeafOfItem(item) == parse_filters("map", <<item>>).val

ValidMap(flt) ==
    \A i \in 1..Len(flt) : ValidKey(flt[i][1]) /\ ItemParses(flt[i])

\* the leaves of a tree, left to right
RECURSIVE LeavesOf(_)
LeavesOf(t) ==
    CASE t.k = "leaf" -> <<t>>
      [] t.k \in {"AND", "OR"} -> LeavesOf(t.left) \o LeavesOf(t.right)
      [] t.k = "NOT" -> LeavesOf(t.spec)

\* the kinds of the composite nodes of a tree
RECURSIVE NodeKinds(_)
NodeKinds(t) ==
    CASE t.k = "leaf" -> {}
      [] t.k \in {"AND", "OR"} -> {t.k} \cup NodeKinds(t.left) \cup NodeKinds(t.right)
      [] t.k = "NOT" -> {t.k} \cup NodeKinds(t.spec)

\* C3: a non-empty map of valid keys parses to one leaf per entry (a bare key
\* gives an eq leaf, field__op a leaf with operator op), combined with AND
\* only: no OR or NOT node, and the result is satisfied by a candidate iff
\* every entry's leaf is.
C3_MapIsConjunction ==
    (pc # "ready" /\ syntax = "map" /\ ValidMap(filters))
    => /\ result.ok
       /\ LeavesOf(result.val) = [i \in 1..Len(filters) |-> LeafOfItem(filters[i])]
       /\ \A i \in 1..Len(filters) :
            /\ LeavesOf(result.val)[i].field = KeyField(filters[i][1])
            /\ LeavesOf(result.val)[i].operator = KeyOperator(filters[i][1])
       /\ NodeKinds(result.val) \subseteq {"AND"}
       /\ pc = "evaluated" =>
            satisfied = Returned(\A i \in 1..Len(filters) :
                            IsSatisfiedBy(LeafOfItem(filters[i]), candidate)
                                = Returned(TRUE))

\* a map of three valid keys, one of them bare, evaluated on a candidate that
\* satisfies every leaf
C3_Witness ==
    /\ pc = "evaluated" /\ syntax = "map" /\ Len(filters) = 3
    /\ ValidMap(filters)
    /\ \E i \in 1..3 : DUnderPositions(filters[i][1]) = {}
    /\ satisfied = Returned(TRUE)

AliasTokens == {S_isnull, S_isnotnull, S_ilike}
CanonicalOf(alias) ==
    CASE alias = S_isnull -> S_is_null
      [] alias = S_isnotnull -> S_is_not_null
      [] alias = S_ilike -> S_like

\* C4: a key field__alias, alias one of isnull, isnotnull, ilike in any letter
\* case, does not raise and gives a leaf whose operator is the canonical tag;
\* every operator token the map syntax accepts ends up as a canonical tag.
C4_AliasesNormalised ==
    (pc # "ready" /\ syntax = "map" /\ Len(filters) = 1)
    => /\ KeyOperator(filters[1][1]) \in AliasTokens
            => /\ result.ok
               /\ result.val.operator = CanonicalOf(KeyOperator(filters[1][1]))
       /\ result.ok => result.val.operator \in OperatorTags

\* a one-entry map whose key carries an alias has been parsed
C4_Witness ==
    /\ pc = "parsed" /\ syntax = "map" /\ Len(filters) = 1
    /\ KeyOperator(filters[1][1]) \in AliasTokens

(***************************************************************************)
(* Values.  The runs of SpecValue parse one entry <field, operator, raw>.  *)
(***************************************************************************)
\* the operator and the value string of the single entry of the input
EntryOperator ==
    IF syntax = "list" THEN WrittenOperator(filters[1]) ELSE KeyOperator(filters[1][1])
EntryValue ==
    IF syntax = "list" THEN Strip(Segment(filters[1], 3)) ELSE filters[1][2]

\* the '|'-separated pieces of a value string
PiecesOf(raw) == Split(raw, Pipe, -1)

\* the classes of a scalar token, in the order in which they are tried
IsNullToken(tok) == Lower(tok) \in {S_null, S_none, <<>>}
IsBoolToken(tok) == Lower(tok) \in {S_true, S_false}
IsIntToken(tok) ==
    \/ tok # <<>> /\ AllDecimal(tok)
    \/ Len(tok) >= 2 /\ tok[1] = "-" /\ AllDecimal(Tail(tok))
IsFloatToken(tok) == Contains(tok, <<".">>) /\ FloatOf(tok).ok

\* the value a scalar token stands for
Coerced(tok) ==
    IF IsNullToken(tok) THEN PyNone
    ELSE IF IsBoolToken(tok) THEN PyBool(Lower(tok) = S_true)
    ELSE IF IsIntToken(tok)
    THEN (IF tok[1] = "-" THEN PyInt(0 - DigitsValue(Tail(tok)))
          ELSE PyInt(DigitsValue(tok)))
    ELSE IF IsFloatToken(tok) THEN FloatOf(tok).val
    ELSE PyStr(tok)

CoercedPieces(raw) ==
    PyList([i \in 1..Len(PiecesOf(raw)) |-> Coerced(Strip(PiecesOf(raw)[i]))])

\* C5: every scalar token, and every '|'-separated piece of an in or between
\* value, is parsed in both syntaxes to null ("null", "none", "" in any case),
\* a boolean ("true"/"false" in any case), an integer (all digits, optional
\* leading '-'), a float (contains '.' and parses), or else the unchanged
\* string, the classes tried in that order.
C5_ValueCoercion ==
    (/\ pc # "ready"
     /\ EntryOperator \in OperatorTags \ {S_is_null, S_is_not_null}
     /\ EntryOperator = S_between => Len(PiecesOf(EntryValue)) = 2)
    => /\ result.ok
       /\ result.val.value = IF EntryOperator \in {S_in, S_between}
                             THEN CoercedPieces(EntryValue)
                             ELSE Coerced(EntryValue)

\* min <= v <= max, false when the values cannot be ordered
Within(min, v, max) ==
    /\ Orderable(min, v) /\ PyLe(min, v)
    /\ Orderable(v, max) /\ PyLe(v, max)

\* C6: a between value that does not split on '|' into exactly two pieces
\* raises a validation failure carrying the value string and returns no
\* specification; a value min|max whose pieces are coerced gives a leaf
\* satisfied by a candidate iff min <= field value <= max, bounds inclusive.
C6_BetweenArity ==
    (pc # "ready" /\ EntryOperator = S_between)
    => /\ Len(PiecesOf(EntryValue)) # 2
            => result = Raised("InvalidValueObjectException", "BetweenValue",
                               EntryValue, 11003010)
       /\ (/\ Len(PiecesOf(EntryValue)) = 2
           /\ \A i \in 1..2 : ConvertSingleValue(Strip(PiecesOf(EntryValue)[i])).ok)
            => /\ result.ok
               /\ result.val.operator = S_between
               /\ result.val.min_value = Coerced(Strip(PiecesOf(EntryValue)[1]))
               /\ result.val.max_value = Coerced(Strip(PiecesOf(EntryValue)[2]))
               /\ pc = "evaluated" =>
                    satisfied = Returned(
                        /\ result.val.field \in DOMAIN candidate
                        /\ Within(result.val.min_value,
                                  candidate[result.val.field],
                                  result.val.max_value))

\* between 1|3 evaluated on a candidate whose field is the lower bound
C6_Witness ==
    /\ pc = "evaluated" /\ EntryOperator = S_between
    /\ result.ok
    /\ result.val.min_value = PyInt(1) /\ result.val.max_value = PyInt(3)
    /\ F_a \in DOMAIN candidate /\ candidate[F_a] = PyInt(1)
    /\ satisfied = Returned(TRUE)

(***************************************************************************)
(* Validation failures.                                                    *)
(***************************************************************************)
\* every entry before entry i parses on its own
EarlierParse(i) ==
    \A j \in 1..(i - 1) :
        IF syntax = "list" THEN WellFormed(filters[j]) ELSE ItemParses(filters[j])

\* entry i carries an operator token outside the supported set; in the map
\* syntax the aliases stand for supported operators
UnknownOperator(i) ==
    IF syntax = "list"
    THEN HasThreeSegments(filters[i]) /\ WrittenOperator(filters[i]) \notin OperatorTags
    ELSE KeyOperator(filters[i][1]) \notin (OperatorTags \cup AliasTokens)

OperatorToken(i) ==
    IF syntax = "list" THEN WrittenOperator(filters[i]) ELSE KeyOperator(filters[i][1])

\* C7: an entry whose operator token is not a supported operator makes
\* parse_filters raise InvalidValueObjectException, wherever the entry stands,
\* and no specification is returned; the failure carries the token when the
\* entries before it parse.
C7_UnknownOperator ==
    pc # "ready" =>
        \A i \in 1..Len(filters) :
            UnknownOperator(i) =>
                /\ ~result.ok
                /\ result.exc = "InvalidValueObjectException"
                /\ EarlierParse(i) =>
                      result = Raised("InvalidValueObjectException", "FilterOperator",
                                      OperatorToken(i), 11003008)

\* three entries, the last with an unknown operator and an unknown connector:
\* the failure carries the operator token
C7_Witness ==
    /\ pc = "parsed" /\ syntax = "list" /\ Len(filters) = 3
    /\ EarlierParse(3) /\ UnknownOperator(3)
    /\ WrittenConnector(filters[3]) \notin {S_and, S_or, <<>>}
    /\ ~result.ok /\ result.invalid_value = WrittenOperator(filters[3])

\* entry i has a supported operator and a fourth segment
HasConnectorSegment(i) ==
    /\ HasFourthSegment(filters[i])
    /\ WrittenOperator(filters[i]) \in OperatorTags

ConnectorFailure(token) ==
    Raised("InvalidValueObjectException", "LogicalConnector", token, 11003009)

\* C8 as stated: a list entry whose fourth segment, trimmed and lower-cased,
\* is anything other than "and" or "or" makes parse_filters raise a typed
\* validation failure carrying it, the last entry included.
C8_AnyOtherConnector ==
    (pc # "ready" /\ syntax = "list") =>
        \A i \in 1..Len(filters) :
            (/\ EarlierParse(i) /\ HasConnectorSegment(i)
             /\ WrittenConnector(filters[i]) \notin {S_and, S_or})
            => result = ConnectorFailure(WrittenConnector(filters[i]))

\* C8 amended: a list entry with a supported operator whose fourth segment,
\* trimmed and lower-cased, is non-empty and neither "and" nor "or" makes
\* parse_filters raise a typed validation failure carrying it, the last entry
\* included; an empty or blank fourth segment is no connector failure.
C8_NonEmptyOtherConnector ==
    (pc # "ready" /\ syntax = "list") =>
        /\ \A i \in 1..Len(filters) :
            (/\ EarlierParse(i) /\ HasConnectorSegment(i)
             /\ WrittenConnector(filters[i]) \notin {S_and, S_or, <<>>})
            => result = ConnectorFailure(WrittenConnector(filters[i]))
        /\ (\A i \in 1..Len(filters) :
                /\ HasThreeSegments(filters[i])
                /\ WrittenOperator(filters[i]) \in OperatorTags
                /\ WrittenConnector(filters[i]) \in {S_and, S_or, <<>>})
            => (~result.ok => result.value_object_type # "LogicalConnector")

\* three entries, the first with a blank fourth segment, the last with an
\* unknown connector: the failure carries the last entry's connector
C8_Witness ==
    /\ pc = "parsed" /\ syntax = "list" /\ Len(filters) = 3
    /\ HasFourthSegment(filters[1]) /\ WrittenConnector(filters[1]) = <<>>
    /\ EarlierParse(3) /\ HasConnectorSegment(3)
    /\ WrittenConnector(filters[3]) \notin {S_and, S_or, <<>>}
    /\ result = ConnectorFailure(WrittenConnector(filters[3]))

\* C9: a list entry with fewer than 3 comma-separated parts raises a
\* validation failure carrying the entry; an entry is split at its first three
\* commas only: the value is the third segment and the connector segment is
\* everything after the third comma.
C9_MalformedEntry ==
    (pc # "ready" /\ syntax = "list") =>
        \A i \in 1..Len(filters) :
            EarlierParse(i) =>
                /\ ~HasThreeSegments(filters[i])
                     => result = Raised("InvalidValueObjectException", "Filter",
                                        filters[i], 11003007)
                /\ (/\ Cardinality(Positions(filters[i], ",")) >= 4
                    /\ WrittenOperator(filters[i]) \in OperatorTags)
                     => result = ConnectorFailure(
                                    Lower(Strip(AfterThirdComma(filters[i]))))
                /\ (/\ Len(filters) = 1 /\ WellFormed(filters[i])
                    /\ WrittenOperator(filters[i])
                          \notin {S_in, S_between, S_is_null, S_is_not_null})
                     => result.val.value = Coerced(Strip(Segment(filters[i], 3)))

\* a well-formed entry followed by an entry of two parts: the failure carries
\* the second entry
C9_Witness ==
    /\ pc = "parsed" /\ syntax = "list" /\ Len(filters) >= 2
    /\ WellFormed(filters[1])
    /\ Cardinality(Positions(filters[2], ",")) = 1
    /\ ~result.ok /\ result.value_object_type = "Filter"
    /\ result.invalid_value = filters[2]

\* C10: a leaf of any operator tag evaluated on a candidate that lacks the
\* leaf's field returns false and raises nothing.
C10_FailClosed ==
    (pc = "evaluated" /\ leaf # Idle /\ leaf.field \notin DOMAIN candidate)
    => satisfied = Returned(FALSE)

\* an is_null (or ne) leaf evaluated on a candidate without the field
C10_Witness ==
    /\ pc = "evaluated" /\ leaf # Idle
    /\ leaf.operator \in {S_is_null, S_ne}
    /\ leaf.field \notin DOMAIN candidate
    /\ satisfied = Returned(FALSE)

(***************************************************************************)
(* The tree runs: a specification composed from leaves with and_spec,      *)
(* or_spec, not_spec or the operators &, |, ~, then evaluated on a         *)
(* candidate or translated for the document backend.                       *)
(***************************************************************************)
MaxDepth == 2

\* Specification.__and__, __or__, __invert__
op_and(self, other) == and_spec(self, other)
op_or(self, other) == or_spec(self, other)
op_invert(self) == not_spec(self)

\* the leaves the trees are composed from: one per operator tag, and an in
\* leaf built on a scalar, whose comparison raises TypeError
TreeLeaves ==
    {EqualSpecification(F_a, PyInt(1)),
     NotEqualSpecification(F_a, PyInt(1)),
     LessThanSpecification(F_a, PyInt(3)),
     LessThanOrEqualSpecification(F_a, PyFloat(15, 1)),
     GreaterThanSpecification(F_a, PyInt(1)),
     GreaterThanOrEqualSpecification(F_a, PyInt(2)),
     LikeSpecification(F_c, PyStr(<<"x", ".">>)),
     InSpecification(F_a, PyList(<<PyInt(1), PyInt(3)>>)),
     BetweenSpecification(F_a, PyInt(1), PyInt(3)),
     IsNullSpecification(F_c),
     IsNotNullSpecification(F_c),
     InSpecification(F_a, PyInt(1))}

\* the specifications a tree is combined with
TreeOperands ==
    {EqualSpecification(F_a, PyInt(1)),
     not_spec(IsNullSpecification(F_c)),
     InSpecification(F_a, PyInt(1))}

RECURSIVE Depth(_)
Max2(m, n) == IF m >= n THEN m ELSE n
Depth(t) ==
    CASE t.k = "leaf" -> 0
      [] t.k \in {"AND", "OR"} -> 1 + Max2(Depth(t.left), Depth(t.right))
      [] t.k = "NOT" -> 1 + Depth(t.spec)

InitTree ==
    /\ tree \in TreeLeaves
    /\ translated = Idle /\ model_class = Idle /\ visited = Idle
    /\ pc = "built"
    /\ syntax = Idle /\ filters = Idle /\ result = Idle
    /\ candidate = Idle /\ satisfied = Idle /\ leaf = Idle
    /\ SortIdle /\ BuilderIdle /\ RestIdle

Composed(t) ==
    /\ pc = "built"
    /\ Depth(tree) < MaxDepth
    /\ tree' = t
    /\ UNCHANGED <<syntax, filters, pc, result, candidate, satisfied, leaf,
                   translated, model_class, visited, restVars, sortVars,
                   builderVars>>

\* tree.and_spec(other), other.and_spec(tree), tree & other, other & tree
AndSpec(other) ==
    \/ Composed(and_spec(tree, other))
    \/ Composed(and_spec(other, tree))
    \/ Composed(op_and(tree, other))
    \/ Composed(op_and(other, tree))

OrSpec(other) ==
    \/ Composed(or_spec(tree, other))
    \/ Composed(or_spec(other, tree))
    \/ Composed(op_or(tree, other))
    \/ Composed(op_or(other, tree))

NotSpec ==
    \/ Composed(not_spec(tree))
    \/ Composed(op_invert(tree))

\* the is_satisfied_by calls that evaluating spec on cand makes, each named
\* by the path of its node from the root, in call order: "l and r" calls r
\* only when l returned True, "l or r" only when l returned False
RECURSIVE CallsOf(_, _, _)
RightCallsIf(called, right, cand, path) ==
    IF called THEN CallsOf(right, cand, path \o <<"right">>) ELSE <<>>
CallsOf(spec, cand, path) ==
    CASE spec.k = "leaf" -> <<path>>
      [] spec.k = "AND" ->
            <<path>> \o CallsOf(spec.left, cand, path \o <<"left">>)
            \o RightCallsIf(IsSatisfiedBy(spec.left, cand) = Returned(TRUE),
                            spec.right, cand, path)
      [] spec.k = "OR" ->
            <<path>> \o CallsOf(spec.left, cand, path \o <<"left">>)
            \o RightCallsIf(IsSatisfiedBy(spec.left, cand) = Returned(FALSE),
                            spec.right, cand, path)
      [] spec.k = "NOT" ->
            <<path>> \o CallsOf(spec.spec, cand, path \o <<"spec">>)

EvaluateTree(c) ==
    /\ pc = "built"
    /\ candidate' = c
    /\ satisfied' = IsSatisfiedBy(tree, c)
    /\ visited' = CallsOf(tree, c, <<>>)
    /\ pc' = "evaluated"
    /\ UNCHANGED <<syntax, filters, result, leaf, tree, translated, model_class,
                   restVars, sortVars, builderVars>>

(***************************************************************************)
(* to_expression and the MongoDB translator.  A Python dict with fixed     *)
(* keys (an expression) is a record; a filter map, whose keys are computed,*)
(* is [k |-> "dict", items |-> <<key, value>> pairs in insertion order].   *)
(***************************************************************************)
S_AND == <<"A", "N", "D">>
S_OR == <<"O", "R">>
S_NOT == <<"N", "O", "T">>
S_id == <<"_", "i", "d">>
D_and == <<"$", "a", "n", "d">>
D_or == <<"$", "o", "r">>
D_not == <<"$", "n", "o", "t">>
D_ne == <<"$", "n", "e">>
D_lt == <<"$", "l", "t">>
D_lte == <<"$", "l", "t", "e">>
D_gt == <<"$", "g", "t">>
D_gte == <<"$", "g", "t", "e">>
D_in == <<"$", "i", "n">>
D_regex == <<"$", "r", "e", "g", "e", "x">>
D_options == <<"$", "o", "p", "t", "i", "o", "n", "s">>

PyDict(items) == [k |-> "dict", items |-> items]

\* FilterSpecification.to_expression and the composites' to_expression
RECURSIVE to_expression(_)
to_expression(spec) ==
    CASE spec.k = "leaf" ->
            [field |-> spec.field, operator |-> spec.operator, value |-> spec.value]
      [] spec.k = "AND" ->
            [operator |-> S_AND, left |-> to_expression(spec.left),
             right |-> to_expression(spec.right)]
      [] spec.k = "OR" ->
            [operator |-> S_OR, left |-> to_expression(spec.left),
             right |-> to_expression(spec.right)]
      [] spec.k = "NOT" ->
            [operator |-> S_NOT, spec |-> to_expression(spec.spec)]

\* re.escape: a backslash before every special character
ReSpecialChars ==
    {"(", ")", "[", "]", "{", "}", "?", "*", "+", "-", "|", "^", "$", "\\",
     ".", "&", "~", "#", " ", "\t", "\n", "\r", "\f"}
RECURSIVE ReEscape(_)
ReEscape(s) ==
    IF s = <<>> THEN <<>>
    ELSE (IF Head(s) \in ReSpecialChars THEN <<"\\", Head(s)>> ELSE <<Head(s)>>)
         \o ReEscape(Tail(s))

\* bson.ObjectId(value) of a str: 24 hexadecimal digits, InvalidId otherwise
HexLetters == {"a", "b", "c", "d", "e", "f", "A", "B", "C", "D", "E", "F"}
IsObjectIdString(s) ==
    Len(s) = 24 /\ \A i \in 1..24 : IsDecimalChar(s[i]) \/ s[i] \in HexLetters
ObjectIdOf(field, value) ==
    IF field = S_id /\ value.k = "str" /\ IsObjectIdString(value.s)
    THEN [k |-> "objectid", hex |-> Lower(value.s)]
    ELSE value

\* the operator chain of _translate_filter, value already converted
TranslateOperator(field, operator, value) ==
    CASE operator = S_eq -> Returned(PyDict(<< <<field, value>> >>))
      [] operator = S_ne ->
            Returned(PyDict(<< <<field, PyDict(<< <<D_ne, value>> >>)>> >>))
      [] operator = S_lt ->
            Returned(PyDict(<< <<field, PyDict(<< <<D_lt, value>> >>)>> >>))
      [] operator = S_lte ->
            Returned(PyDict(<< <<field, PyDict(<< <<D_lte, value>> >>)>> >>))
      [] operator = S_gt ->
            Returned(PyDict(<< <<field, PyDict(<< <<D_gt, value>> >>)>> >>))
      [] operator = S_gte ->
            Returned(PyDict(<< <<field, PyDict(<< <<D_gte, value>> >>)>> >>))
      [] operator = S_like ->
            Returned(PyDict(<< <<field,
                PyDict(<< <<D_regex, PyStr(ReEscape(StrOf(value)))>>,
                          <<D_options, PyStr(<<"i">>)>> >>)>> >>))
      [] operator = S_in ->
            Returned(PyDict(<< <<field, PyDict(<< <<D_in, value>> >>)>> >>))
      [] operator = S_between ->
            IF value.k = "list" /\ Len(value.items) >= 2
            THEN Returned(PyDict(<< <<field,
                    PyDict(<< <<D_gte, value.items[1]>>,
                              <<D_lte, value.items[2]>> >>)>> >>))
            ELSE TypeError
      [] operator = S_is_null -> Returned(PyDict(<< <<field, PyNone>> >>))
      [] operator = S_is_not_null ->
            Returned(PyDict(<< <<field, PyDict(<< <<D_ne, PyNone>> >>)>> >>))
      [] OTHER -> Raised("ValueError", "", operator, 0)

\* MongoDBSpecificationTranslator._translate_filter: the keys field, operator
\* and value are read first (KeyError when one is missing)
translate_filter(expression) ==
    IF ~({"field", "operator", "value"} \subseteq DOMAIN expression)
    THEN Raised("KeyError", "", <<>>, 0)
    ELSE TranslateOperator(expression.field, expression.operator,
                           ObjectIdOf(expression.field, expression.value))

\* {key: [left, right]}, the children translated left first
CombineTranslated(key, l, r) ==
    IF ~l.ok THEN l
    ELSE IF ~r.ok THEN r
    ELSE Returned(PyDict(<< <<key, PyList(<<l.val, r.val>>)>> >>))
WrapTranslated(key, t) ==
    IF ~t.ok THEN t ELSE Returned(PyDict(<< <<key, t.val>> >>))

RECURSIVE translate_expression(_)
\* MongoDBSpecificationTranslator._translate_composite
translate_composite(expression) ==
    CASE expression.operator = S_AND ->
            CombineTranslated(D_and, translate_expression(expression.left),
                              translate_expression(expression.right))
      [] expression.operator = S_OR ->
            CombineTranslated(D_or, translate_expression(expression.left),
                              translate_expression(expression.right))
      [] expression.operator = S_NOT ->
            WrapTranslated(D_not, translate_expression(expression.spec))
      [] OTHER -> Raised("ValueError", "", expression.operator, 0)

\* MongoDBSpecificationTranslator._translate_expression: an expression that
\* has the key "operator" is handed to _translate_composite
translate_expression(expression) ==
    IF "operator" \in DOMAIN expression
    THEN translate_composite(expression)
    ELSE translate_filter(expression)

\* MongoDBSpecificationTranslator.translate
translate(spec) == translate_expression(to_expression(spec))

Translate ==
    /\ pc = "built"
    /\ translated' = translate(tree)
    /\ pc' = "translated"
    /\ UNCHANGED <<syntax, filters, result, candidate, satisfied, leaf, tree,
                   model_class, visited, restVars, sortVars, builderVars>>

(***************************************************************************)
(* The SQLAlchemy translator.  A column expression is a term that records  *)
(* the column method or operator applied and its arguments; a model class  *)
(* is its __name__ and the set of its attribute names.                     *)
(***************************************************************************)
SqlTerm(op, args) == [k |-> "sql", op |-> op, args |-> args]

\* raise ValueError(f"Unsupported composite operator: {operator}")
UnsupportedComposite(operator) ==
    [ok |-> FALSE, exc |-> "ValueError",
     text |-> "Unsupported composite operator", operator |-> operator]
\* raise ValueError(f"Unsupported filter operator: {operator}")
UnsupportedFilter(operator) ==
    [ok |-> FALSE, exc |-> "ValueError",
     text |-> "Unsupported filter operator", operator |-> operator]
\* raise ValueError(f"Field '{field}' not found in model {model.__name__}")
FieldNotFound(field, model) ==
    [ok |-> FALSE, exc |-> "ValueError", text |-> "Field not found in model",
     field |-> field, model |-> model.name]

hasattr(model, field) == field \in model.attrs

\* value[0], value[1]
Subscript2(column, value) ==
    IF value.k = "list"
    THEN IF Len(value.items) >= 2
         THEN Returned(SqlTerm("between", <<column, value.items[1], value.items[2]>>))
         ELSE Raised("IndexError", "", <<>>, 0)
    ELSE IF value.k = "str"
    THEN IF Len(value.s) >= 2
         THEN Returned(SqlTerm("between",
                <<column, PyStr(<<value.s[1]>>), PyStr(<<value.s[2]>>)>>))
         ELSE Raised("IndexError", "", <<>>, 0)
    ELSE TypeError

\* the operator chain of SQLAlchemySpecificationTranslator._translate_filter
SqlOperator(column, operator, value) ==
    CASE operator = S_eq -> Returned(SqlTerm("==", <<column, value>>))
      [] operator = S_ne -> Returned(SqlTerm("!=", <<column, value>>))
      [] operator = S_lt -> Returned(SqlTerm("<", <<column, value>>))
      [] operator = S_lte -> Returned(SqlTerm("<=", <<column, value>>))
      [] operator = S_gt -> Returned(SqlTerm(">", <<column, value>>))
      [] operator = S_gte -> Returned(SqlTerm(">=", <<column, value>>))
      [] operator = S_like ->
            Returned(SqlTerm("ilike",
                <<column, PyStr(<<"%">> \o StrOf(value) \o <<"%">>)>>))
      [] operator = S_in -> Returned(SqlTerm("in_", <<column, value>>))
      [] operator = S_between -> Subscript2(column, value)
      [] operator = S_is_null -> Returned(SqlTerm("is_", <<column, PyNone>>))
      [] operator = S_is_not_null -> Returned(SqlTerm("isnot", <<column, PyNone>>))
      [] OTHER -> UnsupportedFilter(operator)

\* SQLAlchemySpecificationTranslator._translate_filter
sql_translate_filter(model, expression) ==
    IF ~({"field", "operator", "value"} \subseteq DOMAIN expression)
    THEN Raised("KeyError", "", <<>>, 0)
    ELSE IF ~hasattr(model, expression.field)
    THEN FieldNotFound(expression.field, model)
    ELSE SqlOperator([k |-> "column", model |-> model.name, name |-> expression.field],
                     expression.operator, expression.value)

\* and_(left, right), or_(left, right): the children translated left first
SqlCombine(op, l, r) ==
    IF ~l.ok THEN l
    ELSE IF ~r.ok THEN r
    ELSE Returned(SqlTerm(op, <<l.val, r.val>>))
SqlWrap(op, t) == IF ~t.ok THEN t ELSE Returned(SqlTerm(op, <<t.val>>))

RECURSIVE sql_translate_expression(_, _)
\* SQLAlchemySpecificationTranslator._translate_composite
sql_translate_composite(model, expression) ==
    CASE expression.operator = S_AND ->
            SqlCombine("and_", sql_translate_expression(model, expression.left),
                       sql_translate_expression(model, expression.right))
      [] expression.operator = S_OR ->
            SqlCombine("or_", sql_translate_expression(model, expression.left),
                       sql_translate_expression(model, expression.right))
      [] expression.operator = S_NOT ->
            SqlWrap("not_", sql_translate_expression(model, expression.spec))
      [] OTHER -> UnsupportedComposite(expression.operator)

\* SQLAlchemySpecificationTranslator._translate_expression: an expression
\* that has the key "operator" is handed to _translate_composite
sql_translate_expression(model, expression) ==
    IF "operator" \in DOMAIN expression
    THEN sql_translate_composite(model, expression)
    ELSE sql_translate_filter(model, expression)

\* SQLAlchemySpecificationTranslator.translate
sql_translate(model, spec) == sql_translate_expression(model, to_expression(spec))

\* the model classes: UserModel has the columns a and c, OrderModel only a
ModelClasses ==
    {[name |-> "UserModel", attrs |-> {F_a, F_c}],
     [name |-> "OrderModel", attrs |-> {F_a}]}

\* SQLAlchemySpecificationTranslator(model).translate(tree)
SqlTranslate(model) ==
    /\ pc = "built"
    /\ model_class' = model
    /\ translated' = sql_translate(model, tree)
    /\ pc' = "sql_translated"
    /\ UNCHANGED <<syntax, filters, result, candidate, satisfied, leaf, tree,
                   visited, restVars, sortVars, builderVars>>

NextTree ==
    \/ \E other \in TreeOperands : AndSpec(other)
    \/ \E other \in TreeOperands : OrSpec(other)
    \/ NotSpec
    \/ \E c \in Candidates : EvaluateTree(c)
    \/ Translate
    \/ \E model \in ModelClasses : SqlTranslate(model)

SpecTree == InitTree /\ [][NextTree]_vars

(***************************************************************************)
(* Composite evaluation.                                                   *)
(***************************************************************************)
\* the truth value of a tree on a candidate, from the truth values of its
\* leaves
RECURSIVE Holds(_, _)
Holds(t, c) ==
    CASE t.k = "leaf" -> LeafIsSatisfiedBy(t, c) = Returned(TRUE)
      [] t.k = "AND" -> Holds(t.left, c) /\ Holds(t.right, c)
      [] t.k = "OR" -> Holds(t.left, c) \/ Holds(t.right, c)
      [] t.k = "NOT" -> ~Holds(t.spec, c)

\* every leaf of the tree returns a boolean on the candidate
AllLeavesReturn(t, c) ==
    \A i \in 1..Len(LeavesOf(t)) : LeafIsSatisfiedBy(LeavesOf(t)[i], c).ok

\* C11: on every candidate, A AND B is satisfied iff both A and B are, A OR B
\* iff at least one is, NOT A iff A is not, at every level of a nested tree
\* built with and_spec / or_spec / not_spec or &, |, ~ (the leaves being
\* specifications whose evaluation returns).
C11_CompositeEvaluation ==
    (pc = "evaluated" /\ tree # Idle /\ AllLeavesReturn(tree, candidate))
    => satisfied = Returned(Holds(tree, candidate))

\* a tree of depth 2, an AND with a NOT below it, satisfied by the candidate
C11_Witness ==
    /\ pc = "evaluated" /\ tree # Idle
    /\ Depth(tree) = 2 /\ tree.k = "AND" /\ "NOT" \in NodeKinds(tree)
    /\ AllLeavesReturn(tree, candidate)
    /\ satisfied = Returned(TRUE)

\* two values Python orders: both numbers (bool, int, float) or both strings
OrderComparable(v, w) ==
    \/ v.k \in {"bool", "int", "float"} /\ w.k \in {"bool", "int", "float"}
    \/ v.k = "str" /\ w.k = "str"

OrderingClasses ==
    {"LessThan", "LessThanOrEqual", "GreaterThan", "GreaterThanOrEqual"}

\* C12: an lt, lte, gt or gte leaf evaluated on a candidate whose field is
\* present but cannot be ordered against the filter value (a null against an
\* integer, a string against an integer) returns false and raises nothing.
C12_IncomparableIsFalse ==
    (/\ pc = "evaluated" /\ leaf # Idle
     /\ leaf.cls \in OrderingClasses
     /\ leaf.field \in DOMAIN candidate
     /\ ~OrderComparable(candidate[leaf.field], leaf.value))
    => satisfied = Returned(FALSE)

\* a gte leaf on an integer evaluated on a candidate whose field is null
C12_Witness ==
    /\ pc = "evaluated" /\ leaf # Idle
    /\ leaf.cls = "GreaterThanOrEqual" /\ leaf.value.k = "int"
    /\ leaf.field \in DOMAIN candidate
    /\ candidate[leaf.field].k = "none"
    /\ satisfied = Returned(FALSE)

(***************************************************************************)
(* SortParser.  A sort string is None or a str; a MultipleSortSpecification*)
(* is the list of its SortSpecification entries.                           *)
(***************************************************************************)
MaxSorts == 3

S_asc == <<"a", "s", "c">>
S_desc == <<"d", "e", "s", "c">>

\* SortSpecification.__init__; the direction is kept by its value
SortSpecification(field, direction) == [field |-> field, direction |-> direction]

\* MultipleSortSpecification.__init__
MultipleSortSpecification(sorts) ==
    [k |-> "MultipleSortSpecification", sorts |-> sorts]

\* variant of add_sort: an entry replaces the earlier entries of its field
add_sort_Override(self, field, direction) ==
    MultipleSortSpecification(
        Append(SelectSeq(self.sorts, LAMBDA x : x.field # field),
               SortSpecification(field, direction)))

\* MultipleSortSpecification.add_sort
add_sort(self, field, direction) ==
    MultipleSortSpecification(Append(self.sorts, SortSpecification(field, direction)))

\* MultipleSortSpecification.is_empty
is_empty(self) == Len(self.sorts) = 0

\* MultipleSortSpecification.to_sort_criteria
to_sort_criteria(self) ==
    [i \in 1..Len(self.sorts) |-> <<self.sorts[i].field, self.sorts[i].direction>>]

\* variant of DirectionFrom: an unknown token falls back to asc
DirectionFrom_DefaultAsc(direction_str) ==
    IF direction_str \notin {S_asc, S_desc} THEN Returned(S_asc)
    ELSE Returned(direction_str)

\* the direction named by the second part, trimmed and lower-cased
DirectionFrom(direction_str) ==
    IF direction_str \notin {S_asc, S_desc}
    THEN InvalidValueObjectException("SortDirection", direction_str, 11003012)
    ELSE Returned(direction_str)

ParseDirection(parts) ==
    IF Len(parts) > 1 THEN DirectionFrom(Lower(Strip(parts[2])))
    ELSE Returned(S_asc)

\* parse_sort from the field on: None for an empty field, else the direction
\* is determined and a specification of one entry is returned
ParseSortField(field, direction) ==
    IF field = <<>> THEN Returned(PyNone)
    ELSE IF ~direction.ok THEN direction
    ELSE Returned(add_sort(MultipleSortSpecification(<<>>), field, direction.val))

ParseSortParts(parts) == ParseSortField(Strip(parts[1]), ParseDirection(parts))

\* SortParser.parse_sort
parse_sort(sort_str) ==
    IF sort_str.k = "none" THEN Returned(PyNone)
    ELSE IF Strip(sort_str.s) = <<>> THEN Returned(PyNone)
    ELSE ParseSortParts(Split(Strip(sort_str.s), Comma, -1))

\* the loop of parse_multiple_sorts over the outcomes of parse_sort: the first
\* entry of every non-empty single specification is added
RECURSIVE AddSorts(_, _, _)
AddSorts(spec, singles, i) ==
    IF i > Len(singles) THEN spec
    ELSE IF singles[i].val # PyNone /\ ~is_empty(singles[i].val)
    THEN AddSorts(add_sort(spec, singles[i].val.sorts[1].field,
                           singles[i].val.sorts[1].direction), singles, i + 1)
    ELSE AddSorts(spec, singles, i + 1)

NoneIfEmpty(spec) == IF is_empty(spec) THEN Returned(PyNone) ELSE Returned(spec)

CollectSorts(singles) ==
    IF HasFailure(singles) THEN FirstFailure(singles)
    ELSE NoneIfEmpty(AddSorts(MultipleSortSpecification(<<>>), singles, 1))

\* SortParser.parse_multiple_sorts
parse_multiple_sorts(sorts) ==
    IF sorts.k = "none" THEN Returned(PyNone)
    ELSE IF Len(sorts.items) = 0 THEN Returned(PyNone)
    ELSE CollectSorts([i \in 1..Len(sorts.items) |-> parse_sort(sorts.items[i])])

(***************************************************************************)
(* The sort runs: parse_sort on one string (or None), parse_multiple_sorts *)
(* on a list of strings (or None).                                         *)
(***************************************************************************)
R_name == <<"n", "a", "m", "e">>
R_name_asc == <<"n", "a", "m", "e", ",", "a", "s", "c">>
R_name_desc == <<"n", "a", "m", "e", ",", "d", "e", "s", "c">>
R_name_DESC == <<"n", "a", "m", "e", ",", "D", "E", "S", "C">>
R_spaced == <<" ", "n", "a", "m", "e", " ", ",", " ", "D", "e", "s", "c", " ">>
R_sideways ==
    <<"n", "a", "m", "e", ",", "s", "i", "d", "e", "w", "a", "y", "s">>
R_SideWays ==
    <<"n", "a", "m", "e", ",", " ", "S", "i", "d", "e", "W", "a", "y", "s">>
R_trailing == <<"n", "a", "m", "e", ",">>
R_age_desc == <<"a", "g", "e", ",", "d", "e", "s", "c">>
R_empty == <<>>
R_blank == <<" ", " ">>
R_nofield == <<",", "d", "e", "s", "c">>
R_nofield_sideways == <<",", "s", "i", "d", "e", "w", "a", "y", "s">>
R_extra ==
    <<"n", "a", "m", "e", ",", "d", "e", "s", "c", ",", "e", "x", "t", "r",
      "a">>

SortStrings ==
    {R_name, R_name_asc, R_name_desc, R_name_DESC, R_spaced,
     R_sideways, R_SideWays, R_trailing, R_age_desc, R_empty,
     R_blank, R_nofield, R_nofield_sideways, R_extra}

SortLists ==
    {PyList(<<>>)} \cup
    {PyList([i \in 1..Len(l) |-> PyStr(l[i])]) : l \in SeqsUpTo(SortStrings, MaxSorts)}

InitSort ==
    /\ sort_arg \in {[call |-> "parse_sort", arg |-> a] :
                        a \in {PyNone} \cup {PyStr(x) : x \in SortStrings}}
                \cup {[call |-> "parse_multiple_sorts", arg |-> a] :
                        a \in {PyNone} \cup SortLists}
    /\ sort_out = Idle
    /\ pc = "ready"
    /\ syntax = Idle /\ filters = Idle /\ result = Idle
    /\ candidate = Idle /\ satisfied = Idle /\ leaf = Idle
    /\ TreeIdle /\ BuilderIdle /\ RestIdle

ParseSort ==
    /\ pc = "ready"
    /\ sort_arg.call = "parse_sort"
    /\ sort_out' = parse_sort(sort_arg.arg)
    /\ pc' = "parsed"
    /\ UNCHANGED <<syntax, filters, result, candidate, satisfied, leaf, sort_arg,
                   treeVars, restVars, builderVars>>

ParseMultipleSorts ==
    /\ pc = "ready"
    /\ sort_arg.call = "parse_multiple_sorts"
    /\ sort_out' = parse_multiple_sorts(sort_arg.arg)
    /\ pc' = "parsed"
    /\ UNCHANGED <<syntax, filters, result, candidate, satisfied, leaf, sort_arg,
                   treeVars, restVars, builderVars>>

NextSort == ParseSort \/ ParseMultipleSorts

SpecSort == InitSort /\ [][NextSort]_vars

(***************************************************************************)
(* Sort strings.                                                           *)
(***************************************************************************)
CommaCount(s) == Cardinality(Positions(s, ","))

\* the field and the direction token written in a sort string
SortField(s) == Strip(Segment(s, 1))
DirectionToken(s) == Lower(Strip(Segment(s, 2)))

\* the direction a valid sort string asks for
DirectionOf(s) == IF CommaCount(s) = 0 THEN S_asc ELSE DirectionToken(s)

\* "field[,asc|desc]" with a field, the direction in any letter case
ValidSortString(s) ==
    /\ SortField(s) # <<>>
    /\ \/ CommaCount(s) = 0
       \/ CommaCount(s) = 1 /\ DirectionToken(s) \in {S_asc, S_desc}

\* C13: parse_sort of "field" yields exactly [(field, asc)]; of "field,asc" or
\* "field,desc", in any letter case, exactly one entry with that direction;
\* a second segment that is neither raises a typed validation failure
\* carrying the token.
C13_SingleSort ==
    (/\ pc = "parsed" /\ sort_arg # Idle /\ sort_arg.call = "parse_sort"
     /\ sort_arg.arg.k = "str"
     /\ SortField(sort_arg.arg.s) # <<>>)
    => /\ CommaCount(sort_arg.arg.s) = 0
            => /\ sort_out.ok
               /\ to_sort_criteria(sort_out.val)
                    = << <<SortField(sort_arg.arg.s), S_asc>> >>
       /\ (/\ CommaCount(sort_arg.arg.s) >= 1
           /\ DirectionToken(sort_arg.arg.s) \in {S_asc, S_desc})
            => /\ sort_out.ok
               /\ to_sort_criteria(sort_out.val)
                    = << <<SortField(sort_arg.arg.s), DirectionToken(sort_arg.arg.s)>> >>
       /\ (/\ CommaCount(sort_arg.arg.s) >= 1
           /\ DirectionToken(sort_arg.arg.s) \notin {S_asc, S_desc})
            => sort_out = Raised("InvalidValueObjectException", "SortDirection",
                                 DirectionToken(sort_arg.arg.s), 11003012)

\* " name , Desc " parsed to [(name, desc)]
C13_Witness ==
    /\ pc = "parsed" /\ sort_arg # Idle /\ sort_arg.call = "parse_sort"
    /\ sort_arg.arg = PyStr(R_spaced)
    /\ sort_out.ok
    /\ to_sort_criteria(sort_out.val) = << <<SortField(R_name), S_desc>> >>

\* C14: parse_multiple_sorts of a list of valid sort strings returns one
\* entry per input string, in input order, each with its own direction: a
\* field that occurs k times in the input occurs k times in the output.
C14_MultipleSorts ==
    (/\ pc = "parsed" /\ sort_arg # Idle /\ sort_arg.call = "parse_multiple_sorts"
     /\ sort_arg.arg.k = "list" /\ Len(sort_arg.arg.items) >= 1
     /\ \A i \in 1..Len(sort_arg.arg.items) : ValidSortString(sort_arg.arg.items[i].s))
    => /\ sort_out.ok
       /\ to_sort_criteria(sort_out.val)
            = [i \in 1..Len(sort_arg.arg.items) |->
                 <<SortField(sort_arg.arg.items[i].s), DirectionOf(sort_arg.arg.items[i].s)>>]

\* three valid strings, the first and the last on the same field with
\* different directions: three entries come out
C14_Witness ==
    /\ pc = "parsed" /\ sort_arg # Idle /\ sort_arg.call = "parse_multiple_sorts"
    /\ sort_arg.arg.k = "list" /\ Len(sort_arg.arg.items) = 3
    /\ \A i \in 1..3 : ValidSortString(sort_arg.arg.items[i].s)
    /\ SortField(sort_arg.arg.items[1].s) = SortField(sort_arg.arg.items[3].s)
    /\ DirectionOf(sort_arg.arg.items[1].s) # DirectionOf(sort_arg.arg.items[3].s)
    /\ sort_out.ok /\ Len(sort_out.val.sorts) = 3

(***************************************************************************)
(* QueryBuilder.  The lists a builder holds are objects of the heap, named *)
(* by their address, so that two references to one list are told apart     *)
(* from two equal lists.  A MultipleSortSpecification is kept by value: no *)
(* builder operation writes to it.                                         *)
(***************************************************************************)
MaxBuilderSteps == 4
MaxBuilders == 2

Ref(addr) == [k |-> "ref", addr |-> addr]

\* QueryBuilder.__init__, its two lists allocated at filters_addr, joins_addr
QueryBuilder(entity_type, filters_addr, joins_addr) ==
    [entity_type |-> entity_type, filters |-> Ref(filters_addr), sorts |-> PyNone,
     limit |-> PyNone, offset |-> PyNone, select_fields |-> PyNone,
     joins |-> Ref(joins_addr)]

\* truth value of an Optional[MultipleSortSpecification]: __len__ decides
SortsTruthy(sorts) == sorts # PyNone /\ Len(sorts.sorts) > 0

\* MultipleSortSpecification.to_expression
sorts_to_expression(sorts) ==
    [i \in 1..Len(sorts.sorts) |->
        [field |-> sorts.sorts[i].field, direction |-> sorts.sorts[i].direction]]

\* QueryBuilder.to_query_definition: filters is a new list, joins and
\* select_fields are the builder's own objects
to_query_definition(b, h) ==
    [entity_type |-> b.entity_type,
     filters |-> [i \in 1..Len(h[b.filters.addr]) |-> to_expression(h[b.filters.addr][i])],
     sorts |-> IF SortsTruthy(b.sorts) THEN sorts_to_expression(b.sorts) ELSE PyNone,
     limit |-> b.limit,
     offset |-> b.offset,
     select_fields |-> b.select_fields,
     joins |-> b.joins]

\* what a descriptor reads as: its references followed
Deref(v, h) == IF v.k = "ref" THEN h[v.addr] ELSE v
DescriptorValue(d, h) ==
    [entity_type |-> d.entity_type, filters |-> d.filters, sorts |-> d.sorts,
     limit |-> d.limit, offset |-> d.offset,
     select_fields |-> Deref(d.select_fields, h), joins |-> Deref(d.joins, h)]

\* the has_* properties
has_filters(b, h) == Len(h[b.filters.addr]) > 0
has_sorting(b) == b.sorts # PyNone /\ ~is_empty(b.sorts)
has_pagination(b) == b.limit # PyNone \/ b.offset # PyNone
has_field_selection(b, h) ==
    b.select_fields # PyNone /\ Len(h[b.select_fields.addr]) > 0
has_joins(b, h) == Len(h[b.joins.addr]) > 0

\* QueryBuilder.sort, limit, offset, select: the field is rebound
sort(b, sort_spec) == [b EXCEPT !.sorts = sort_spec]
limit(b, n) == [b EXCEPT !.limit = PyInt(n)]
offset(b, n) == [b EXCEPT !.offset = PyInt(n)]
select(b, fields_addr) == [b EXCEPT !.select_fields = Ref(fields_addr)]

\* variant of paginate: pages counted from 1
paginate_OneBased(b, page, page_size) ==
    [b EXCEPT !.offset = PyInt((page - 1) * page_size), !.limit = PyInt(page_size)]

\* QueryBuilder.paginate
paginate(b, page, page_size) ==
    [b EXCEPT !.offset = PyInt(page * page_size), !.limit = PyInt(page_size)]

\* QueryBuilder.filter and join: the builder's list is appended to in place
filter(b, h, spec) == [h EXCEPT ![b.filters.addr] = Append(@, spec)]
join(b, h, entity_type, condition, join_type) ==
    [h EXCEPT ![b.joins.addr] =
        Append(@, [entity_type |-> entity_type, condition |-> condition,
                   join_type |-> join_type])]

\* variant of clear_fields: the pagination is kept
clear_fields_KeepPagination(b) ==
    [b EXCEPT !.sorts = PyNone, !.select_fields = PyNone]

\* QueryBuilder.clear: the two lists are emptied in place, the other fields
\* are rebound to None
clear_fields(b) ==
    [b EXCEPT !.sorts = PyNone, !.limit = PyNone, !.offset = PyNone,
              !.select_fields = PyNone]
clear_lists(b, h) == [h EXCEPT ![b.filters.addr] = <<>>, ![b.joins.addr] = <<>>]

\* QueryBuilder.clone: filters and joins are copied, select_fields is copied
\* when it is a non-empty list and None otherwise
SelectTruthy(b, h) == b.select_fields # PyNone /\ Len(h[b.select_fields.addr]) > 0
clone_heap(b, h) ==
    h \o <<h[b.filters.addr], h[b.joins.addr]>>
      \o (IF SelectTruthy(b, h) THEN <<h[b.select_fields.addr]>> ELSE <<>>)
clone(b, h) ==
    [b EXCEPT !.filters = Ref(Len(h) + 1), !.joins = Ref(Len(h) + 2),
              !.select_fields = IF SelectTruthy(b, h) THEN Ref(Len(h) + 3)
                                ELSE PyNone]

(***************************************************************************)
(* The builder runs: one builder, operations on it, at most one clone.     *)
(***************************************************************************)
EntityUser == "User"
EntityOrder == "Order"

\* the lists the caller passes to select, by address
CallerLists == << <<>>, <<F_a>>, <<F_a, F_c>> >>
FieldLists == 1..Len(CallerLists)

FilterSpecs ==
    {EqualSpecification(F_a, PyInt(1)),
     and_spec(GreaterThanSpecification(F_b, PyInt(2)),
              LikeSpecification(F_c, PyStr(<<"x">>)))}
SortSpecs ==
    {MultipleSortSpecification(<<>>),
     MultipleSortSpecification(<<SortSpecification(F_a, S_desc)>>)}
LimitValues == {5}
OffsetValues == {3}
Pages == {0, 2}
PageSizes == {20}

InitBuilder ==
    /\ heap = CallerLists \o << <<>>, <<>> >>
    /\ builders = <<QueryBuilder(EntityUser, Len(CallerLists) + 1, Len(CallerLists) + 2)>>
    /\ exported = Idle /\ snapshot = Idle
    /\ steps = 0 /\ last = Idle
    /\ pc = "building"
    /\ syntax = Idle /\ filters = Idle /\ result = Idle
    /\ candidate = Idle /\ satisfied = Idle /\ leaf = Idle
    /\ TreeIdle /\ SortIdle /\ RestIdle

\* one operation on builder i, leaving it as b and the heap as h
BuilderStep(i, b, h, op) ==
    /\ pc = "building"
    /\ steps < MaxBuilderSteps
    /\ builders' = [builders EXCEPT ![i] = b]
    /\ heap' = h
    /\ steps' = steps + 1
    /\ last' = op
    /\ UNCHANGED <<syntax, filters, pc, result, candidate, satisfied, leaf,
                   exported, snapshot, treeVars, restVars, sortVars>>

Filter(i, spec) ==
    BuilderStep(i, builders[i], filter(builders[i], heap, spec),
                [op |-> "filter", b |-> i])
Sort(i, sort_spec) ==
    BuilderStep(i, sort(builders[i], sort_spec), heap, [op |-> "sort", b |-> i])
Limit(i, n) ==
    BuilderStep(i, limit(builders[i], n), heap, [op |-> "limit", b |-> i])
Offset(i, n) ==
    BuilderStep(i, offset(builders[i], n), heap, [op |-> "offset", b |-> i])
Select(i, fields_addr) ==
    BuilderStep(i, select(builders[i], fields_addr), heap, [op |-> "select", b |-> i])
Join(i) ==
    BuilderStep(i, builders[i],
                join(builders[i], heap, EntityOrder, <<"o", "n">>, <<"i", "n", "n", "e", "r">>),
                [op |-> "join", b |-> i])
Paginate(i, page, page_size) ==
    BuilderStep(i, paginate(builders[i], page, page_size), heap,
                [op |-> "paginate", b |-> i, page |-> page, page_size |-> page_size])
Clear(i) ==
    BuilderStep(i, clear_fields(builders[i]), clear_lists(builders[i], heap),
                [op |-> "clear", b |-> i])

Clone(i) ==
    /\ pc = "building"
    /\ steps < MaxBuilderSteps
    /\ Len(builders) < MaxBuilders
    /\ builders' = Append(builders, clone(builders[i], heap))
    /\ heap' = clone_heap(builders[i], heap)
    /\ steps' = steps + 1
    /\ last' = [op |-> "clone", b |-> i]
    /\ UNCHANGED <<syntax, filters, pc, result, candidate, satisfied, leaf,
                   exported, snapshot, treeVars, restVars, sortVars>>

ToQueryDefinition(i) ==
    /\ pc = "building"
    /\ steps < MaxBuilderSteps
    /\ exported' = to_query_definition(builders[i], heap)
    /\ snapshot' = DescriptorValue(to_query_definition(builders[i], heap), heap)
    /\ steps' = steps + 1
    /\ last' = [op |-> "to_query_definition", b |-> i]
    /\ UNCHANGED <<syntax, filters, pc, result, candidate, satisfied, leaf,
                   heap, builders, treeVars, restVars, sortVars>>

NextBuilder ==
    \/ \E i \in DOMAIN builders, spec \in FilterSpecs : Filter(i, spec)
    \/ \E i \in DOMAIN builders, sort_spec \in SortSpecs : Sort(i, sort_spec)
    \/ \E i \in DOMAIN builders, n \in LimitValues : Limit(i, n)
    \/ \E i \in DOMAIN builders, n \in OffsetValues : Offset(i, n)
    \/ \E i \in DOMAIN builders, fields_addr \in FieldLists : Select(i, fields_addr)
    \/ \E i \in DOMAIN builders : Join(i)
    \/ \E i \in DOMAIN builders, page \in Pages, page_size \in PageSizes :
            Paginate(i, page, page_size)
    \/ \E i \in DOMAIN builders : Clear(i)
    \/ \E i \in DOMAIN builders : Clone(i)
    \/ \E i \in DOMAIN builders : ToQueryDefinition(i)

SpecBuilder == InitBuilder /\ [][NextBuilder]_vars

(***************************************************************************)
(* Builder properties.                                                     *)
(***************************************************************************)
\* what builder i of bs exports on heap h, read at once
Exports(bs, h, i) == DescriptorValue(to_query_definition(bs[i], h), h)

\* the descriptor of a freshly constructed builder
FreshDescriptor ==
    [entity_type |-> EntityUser, filters |-> <<>>, sorts |-> PyNone,
     limit |-> PyNone, offset |-> PyNone, select_fields |-> PyNone, joins |-> <<>>]

\* C15: paginate(page, page_size) sets offset = page * page_size and
\* limit = page_size whatever limit and offset were before, the exported
\* descriptor carries these two values, and filters, sort, projection and
\* joins stay as they were.
C15_Paginate ==
    [][(steps' = steps + 1 /\ last'.op = "paginate") =>
         /\ builders'[last'.b].offset = PyInt(last'.page * last'.page_size)
         /\ builders'[last'.b].limit = PyInt(last'.page_size)
         /\ Exports(builders', heap', last'.b) =
                [Exports(builders, heap, last'.b) EXCEPT
                    !.offset = PyInt(last'.page * last'.page_size),
                    !.limit = PyInt(last'.page_size)]]_vars

\* paginate(2, 20) on a builder that has filters and joins: offset 40, limit 20
C15_Witness ==
    /\ steps > 0 /\ last.op = "paginate"
    /\ last.page = 2 /\ last.page_size = 20
    /\ has_filters(builders[last.b], heap) /\ has_joins(builders[last.b], heap)
    /\ Exports(builders, heap, last.b).offset = PyInt(40)
    /\ Exports(builders, heap, last.b).limit = PyInt(20)

\* C16: right after b2 = b1.clone() the two builders export equal
\* descriptors, and an operation on one builder leaves what the other
\* exports unchanged.
C16_CloneIndependence ==
    [][steps' = steps + 1 =>
         /\ last'.op = "clone" =>
                Exports(builders', heap', Len(builders'))
                    = Exports(builders', heap', last'.b)
         /\ \A j \in DOMAIN builders :
                j # last'.b => Exports(builders', heap', j) = Exports(builders, heap, j)]_vars

\* a clone has been taken and then one of the two builders operated on
C16_Witness ==
    /\ Len(builders) = 2 /\ steps >= 2 /\ last.op \in {"join", "filter", "clear"}

\* C17: after clear() the builder exports the descriptor of a fresh builder
\* and has_filters, has_sorting, has_pagination, has_field_selection and
\* has_joins are all false.
C17_Clear ==
    (steps > 0 /\ last.op = "clear")
    => /\ Exports(builders, heap, last.b) = FreshDescriptor
       /\ ~has_filters(builders[last.b], heap)
       /\ ~has_sorting(builders[last.b])
       /\ ~has_pagination(builders[last.b])
       /\ ~has_field_selection(builders[last.b], heap)
       /\ ~has_joins(builders[last.b], heap)

\* a builder exported with filters, pagination and a projection, then cleared
C17_Witness ==
    /\ steps > 0 /\ last.op = "clear" /\ Len(builders) = 1
    /\ exported # Idle
    /\ snapshot.filters # <<>> /\ snapshot.limit # PyNone

\* C18: once to_query_definition() has returned a descriptor, no later
\* operation on the builder changes any component of it.
C18_DescriptorImmutable ==
    exported # Idle => DescriptorValue(exported, heap) = snapshot

\* a descriptor has been exported and the builder operated on afterwards
C18_Witness ==
    /\ exported # Idle /\ steps >= 2 /\ last.op \in {"join", "clear"}

(***************************************************************************)
(* Document-backend translation properties.                                *)
(***************************************************************************)
\* the $-operator of a comparison tag
DollarOf(op) == <<"$">> \o op

\* the filter map of a leaf (field, op, value), operator by operator
LeafRule(field, op, value) ==
    CASE op = S_eq -> PyDict(<< <<field, value>> >>)
      [] op \in {S_ne, S_lt, S_lte, S_gt, S_gte, S_in} ->
            PyDict(<< <<field, PyDict(<< <<DollarOf(op), value>> >>)>> >>)
      [] op = S_between ->
            PyDict(<< <<field, PyDict(<< <<D_gte, value.items[1]>>,
                                         <<D_lte, value.items[2]>> >>)>> >>)
      [] op = S_like ->
            PyDict(<< <<field, PyDict(<< <<D_regex, PyStr(ReEscape(value.s))>>,
                                         <<D_options, PyStr(<<"i">>)>> >>)>> >>)
      [] op = S_is_null -> PyDict(<< <<field, PyNone>> >>)
      [] op = S_is_not_null ->
            PyDict(<< <<field, PyDict(<< <<D_ne, PyNone>> >>)>> >>)

\* the filter map of a tree: the leaf rule, {$and: [..]}, {$or: [..]} and
\* {$not: ..} around the filter maps of the children
RECURSIVE FilterMap(_)
FilterMap(t) ==
    CASE t.k = "leaf" -> LeafRule(t.field, t.operator, t.value)
      [] t.k = "AND" ->
            PyDict(<< <<D_and, PyList(<<FilterMap(t.left), FilterMap(t.right)>>)>> >>)
      [] t.k = "OR" ->
            PyDict(<< <<D_or, PyList(<<FilterMap(t.left), FilterMap(t.right)>>)>> >>)
      [] t.k = "NOT" -> PyDict(<< <<D_not, FilterMap(t.spec)>> >>)

\* C19: translate returns a filter map without raising for every tree; a
\* leaf is translated by the per-operator leaf rule and A AND B, A OR B to
\* {$and: [t(A), t(B)]}, {$or: [t(A), t(B)]}.
C19_Translation ==
    pc = "translated"
    => /\ translated.ok
       /\ "NOT" \notin NodeKinds(tree) => translated.val = FilterMap(tree)

\* a tree of depth 2 without negation has been translated
C19_Witness ==
    /\ pc = "translated" /\ Depth(tree) = 2 /\ "NOT" \notin NodeKinds(tree)
    /\ {"AND", "OR"} \subseteq NodeKinds(tree)

\* C20: translate(NOT X) is {$not: translate(X)} for a leaf or composite X:
\* the translated child unchanged under one negation wrapper.
C20_StructuralNegation ==
    (pc = "translated" /\ tree.k = "NOT")
    => /\ translated.ok
       /\ translate(tree.spec).ok
       /\ translated.val = PyDict(<< <<D_not, translate(tree.spec).val>> >>)
       /\ translated.val = FilterMap(tree)

\* NOT (A AND B) has been translated
C20_Witness ==
    pc = "translated" /\ tree.k = "NOT" /\ tree.spec.k = "AND"

(***************************************************************************)
(* Relational translation properties.                                      *)
(***************************************************************************)
\* the fields of the leaves of a tree
RECURSIVE LeafFields(_)
LeafFields(t) ==
    CASE t.k = "leaf" -> {t.field}
      [] t.k \in {"AND", "OR"} -> LeafFields(t.left) \cup LeafFields(t.right)
      [] t.k = "NOT" -> LeafFields(t.spec)

\* C21: SQLAlchemySpecificationTranslator.translate raises a failure naming
\* the field and the entity type when a leaf's field is not an attribute of
\* the model class, and returns an expression when every leaf field is one.
C21_UnknownField ==
    pc = "sql_translated"
    => IF LeafFields(tree) \subseteq model_class.attrs
       THEN translated.ok
       ELSE /\ ~translated.ok
            /\ {"field", "model"} \subseteq DOMAIN translated
            /\ translated.field \in LeafFields(tree) \ model_class.attrs
            /\ translated.model = model_class.name

\* a tree with a leaf on c has been translated for OrderModel, which has no c
C21_Witness ==
    /\ pc = "sql_translated" /\ model_class.name = "OrderModel"
    /\ F_c \in LeafFields(tree) /\ Depth(tree) >= 1

(***************************************************************************)
(* Cross-backend agreement.  A document is a candidate read as a map; a    *)
(* filter map is matched with the document store's operator semantics:     *)
(* values compare within their type bracket (numbers, strings, booleans,   *)
(* null), the conditions of a map all hold, $and / $or range over their    *)
(* list, $regex applies to strings, and $not is an operator of a field     *)
(* condition only, so a top-level {$not: ..} matches no document.          *)
(***************************************************************************)
Bracket(v) ==
    CASE v.k \in {"int", "float"} -> "number"
      [] v.k = "str" -> "string"
      [] v.k = "bool" -> "boolean"
      [] v.k = "none" -> "null"
      [] OTHER -> v.k

BsonEq(v, w) == Bracket(v) = Bracket(w) /\ PyEq(v, w)
BsonLt(v, w) == Bracket(v) = Bracket(w) /\ Bracket(v) # "null" /\ Orderable(v, w) /\ PyLt(v, w)
BsonLe(v, w) == BsonEq(v, w) \/ BsonLt(v, w)

\* one operator condition {$op: arg} on a field value
ConditionHolds(op, arg, v) ==
    CASE op = D_ne -> ~BsonEq(v, arg)
      [] op = D_lt -> BsonLt(v, arg)
      [] op = D_lte -> BsonLe(v, arg)
      [] op = D_gt -> BsonLt(arg, v)
      [] op = D_gte -> BsonLe(arg, v)
      [] op = D_in ->
            arg.k = "list" /\ \E i \in 1..Len(arg.items) : BsonEq(v, arg.items[i])
      [] op = D_regex ->
            v.k = "str" /\ Contains(Lower(v.s), Lower(arg.s))
      [] op = D_options -> TRUE
      [] OTHER -> FALSE

\* the pattern a $regex condition searches for: the escaped literal, unescaped
RECURSIVE ReUnescape(_)
ReUnescape(s) ==
    IF s = <<>> THEN <<>>
    ELSE IF Head(s) = "\\" /\ Len(s) >= 2
    THEN <<s[2]>> \o ReUnescape(Tail(Tail(s)))
    ELSE <<Head(s)>> \o ReUnescape(Tail(s))

ConditionArg(op, arg) ==
    IF op = D_regex THEN PyStr(ReUnescape(arg.s)) ELSE arg

\* {field: value} or {field: {$op: arg, ..}} on a document
FieldMatches(field, cond, doc) ==
    IF cond.k = "dict"
    THEN \A i \in 1..Len(cond.items) :
            ConditionHolds(cond.items[i][1],
                           ConditionArg(cond.items[i][1], cond.items[i][2]),
                           doc[field])
    ELSE BsonEq(doc[field], cond)

RECURSIVE Matches(_, _)
ItemMatches(key, value, doc) ==
    CASE key = D_and -> \A i \in 1..Len(value.items) : Matches(value.items[i], doc)
      [] key = D_or -> \E i \in 1..Len(value.items) : Matches(value.items[i], doc)
      [] key = D_not -> FALSE
      [] OTHER -> FieldMatches(key, value, doc)
Matches(query, doc) ==
    \A i \in 1..Len(query.items) :
        ItemMatches(query.items[i][1], query.items[i][2], doc)

\* no NOT node of the tree has a composite below it
RECURSIVE NoNotOverComposite(_)
NoNotOverComposite(t) ==
    CASE t.k = "leaf" -> TRUE
      [] t.k \in {"AND", "OR"} ->
            NoNotOverComposite(t.left) /\ NoNotOverComposite(t.right)
      [] t.k = "NOT" -> t.spec.k = "leaf"

\* C22: for every tree without a NOT over a composite and every candidate
\* that has all the referenced fields, is_satisfied_by accepts the candidate
\* iff the filter map the document translator produces matches the
\* equivalent document.
C22_CrossBackendAgreement ==
    (/\ pc = "evaluated" /\ tree # Idle
     /\ NoNotOverComposite(tree)
     /\ LeafFields(tree) \subseteq DOMAIN candidate)
    => /\ translate(tree).ok
       /\ (satisfied = Returned(TRUE)) <=> Matches(translate(tree).val, candidate)

\* a composite tree over the fields a and c evaluated on a candidate with both
C22_Witness ==
    /\ pc = "evaluated" /\ tree # Idle /\ Depth(tree) >= 1
    /\ NoNotOverComposite(tree)
    /\ LeafFields(tree) = {F_a, F_c} /\ {F_a, F_c} \subseteq DOMAIN candidate

(***************************************************************************)
(* Leaf round trip and operator tags.                                      *)
(***************************************************************************)
\* C23: for a leaf L created by SpecificationFactory, the leaf created from
\* the field, operator and value of L.to_expression() gives the same
\* is_satisfied_by result as L on the candidate and the same to_expression().
C23_LeafRoundTrip ==
    (pc = "rebuilt" /\ leaf.cls # "Base")
    => /\ rebuilt.spec.ok
       /\ rebuilt.satisfied = satisfied
       /\ FilterSpecification_to_expression(rebuilt.spec.val)
            = FilterSpecification_to_expression(leaf)

\* a between leaf rebuilt from [min, max] and satisfied by the candidate
C23_Witness ==
    /\ pc = "rebuilt" /\ leaf.cls = "Between"
    /\ rebuilt.spec.ok /\ satisfied = Returned(TRUE)

\* C27: every leaf that the public classes construct, FilterSpecification
\* built directly with a canonical tag included, evaluates as the leaf the
\* factory creates for the same field, operator and value.
C27_EvaluationFollowsTag ==
    (pc = "rebuilt" /\ rebuilt.spec.ok) => rebuilt.satisfied = satisfied

\* FilterSpecification(a, gte, 1) evaluated on a candidate whose a is 2
C27_Witness ==
    /\ pc = "rebuilt" /\ leaf.cls = "Base" /\ leaf.operator = S_gte
    /\ leaf.field = F_a /\ leaf.value = PyInt(1)
    /\ F_a \in DOMAIN candidate /\ candidate[F_a] = PyInt(2)

(***************************************************************************)
(* Evaluation order.                                                       *)
(***************************************************************************)
\* the node of a tree at a path
RECURSIVE NodeAt(_, _)
NodeAt(t, path) ==
    IF path = <<>> THEN t
    ELSE NodeAt(CASE Head(path) = "left" -> t.left
                  [] Head(path) = "right" -> t.right
                  [] Head(path) = "spec" -> t.spec, Tail(path))

\* how many times the node at a path was evaluated
TimesVisited(path) == Cardinality({i \in DOMAIN visited : visited[i] = path})

\* C26: evaluating A AND B or A OR B evaluates both children exactly once
\* each, whatever the left child returns.
C26_NoShortCircuit ==
    (pc = "evaluated" /\ tree # Idle /\ AllLeavesReturn(tree, candidate))
    => \A i \in DOMAIN visited :
          NodeAt(tree, visited[i]).k \in {"AND", "OR"}
          => /\ TimesVisited(visited[i] \o <<"left">>) = 1
             /\ TimesVisited(visited[i] \o <<"right">>) = 1

\* an AND whose left child is false, or an OR whose left child is true
C26_Witness ==
    /\ pc = "evaluated" /\ tree # Idle /\ AllLeavesReturn(tree, candidate)
    /\ \/ tree.k = "AND" /\ IsSatisfiedBy(tree.left, candidate) = Returned(FALSE)
       \/ tree.k = "OR" /\ IsSatisfiedBy(tree.left, candidate) = Returned(TRUE)

(***************************************************************************)
(* The object runs: specifications as objects.  nodes[a] is the object at  *)
(* address a; a composite holds the addresses of its operands in left,     *)
(* right or spec, the way the Python object holds references.              *)
(***************************************************************************)
MaxNodes == 3

\* the tree an object stands for, read through the references
RECURSIVE Resolve(_, _)
Resolve(h, a) ==
    CASE h[a].k = "leaf" -> h[a]
      [] h[a].k \in {"AND", "OR"} ->
            [k |-> h[a].k, left |-> Resolve(h, h[a].left),
             right |-> Resolve(h, h[a].right)]
      [] h[a].k = "NOT" -> [k |-> "NOT", spec |-> Resolve(h, h[a].spec)]

\* variant of NotObject: the operand is overwritten by the first object
NotObject_InPlace(h, self) ==
    Append([h EXCEPT ![self] = h[1]], [k |-> "NOT", spec |-> self])

\* AndSpecification(self, other), OrSpecification(self, other),
\* NotSpecification(self): a new object that stores the references
AndObject(h, self, other) == Append(h, [k |-> "AND", left |-> self, right |-> other])
OrObject(h, self, other) == Append(h, [k |-> "OR", left |-> self, right |-> other])
NotObject(h, self) == Append(h, [k |-> "NOT", spec |-> self])

NodeLeaves ==
    {EqualSpecification(F_a, PyInt(1)),
     InSpecification(F_a, PyInt(1))}

NodeCandidates ==
    {(F_a :> PyInt(1)) @@ (F_c :> PyStr(<<"x", "y">>)),
     (F_a :> PyInt(2))}

\* one leaf object and a candidate
InitNodes ==
    /\ nodes \in {<<l>> : l \in NodeLeaves}
    /\ verdicts = {}
    /\ candidate \in NodeCandidates
    /\ translated = Idle
    /\ pc = "objects"
    /\ syntax = Idle /\ filters = Idle /\ result = Idle
    /\ satisfied = Idle /\ leaf = Idle /\ rebuilt = Idle
    /\ tree = Idle /\ model_class = Idle /\ visited = Idle
    /\ SortIdle /\ BuilderIdle /\ UowIdle /\ RepoIdle /\ BusIdle

NodeFrame ==
    UNCHANGED <<syntax, filters, pc, result, satisfied, leaf, rebuilt,
                tree, model_class, visited, sortVars, builderVars, uowVars,
                repoVars, busVars>>

\* a composition: the object last created is combined with an object
Compose(h) ==
    /\ pc = "objects" /\ Len(nodes) < MaxNodes
    /\ nodes' = h
    /\ UNCHANGED <<candidate, verdicts, translated>>
    /\ NodeFrame

\* last.and_spec(other), other.and_spec(last), and the same with and_, &
AndSpecObject(other) ==
    \/ Compose(AndObject(nodes, Len(nodes), other))
    \/ Compose(AndObject(nodes, other, Len(nodes)))

\* last.or_spec(other), other.or_spec(last), and the same with or_, |
OrSpecObject(other) ==
    \/ Compose(OrObject(nodes, Len(nodes), other))
    \/ Compose(OrObject(nodes, other, Len(nodes)))

\* last.not_spec(), ~last
NotSpecObject == Compose(NotObject(nodes, Len(nodes)))

\* self.is_satisfied_by(candidate): the result joins the results seen so far
IsSatisfiedByObject(self) ==
    /\ pc = "objects"
    /\ verdicts' = verdicts \cup
          {[spec |-> self,
            outcome |-> IsSatisfiedBy(Resolve(nodes, self), candidate)]}
    /\ UNCHANGED <<candidate, nodes, translated>>
    /\ NodeFrame

\* self.to_expression()
ToExpressionObject(self) ==
    /\ pc = "objects"
    /\ translated' = [op |-> "to_expression", spec |-> self,
                      outcome |-> to_expression(Resolve(nodes, self))]
    /\ UNCHANGED <<candidate, nodes, verdicts>>
    /\ NodeFrame

\* MongoDBSpecificationTranslator.translate(self)
TranslateObject(self) ==
    /\ pc = "objects"
    /\ translated' = [op |-> "translate", spec |-> self,
                      outcome |-> translate(Resolve(nodes, self))]
    /\ UNCHANGED <<candidate, nodes, verdicts>>
    /\ NodeFrame

NextNodes ==
    \/ \E other \in DOMAIN nodes : AndSpecObject(other)
    \/ \E other \in DOMAIN nodes : OrSpecObject(other)
    \/ NotSpecObject
    \/ \E self \in DOMAIN nodes : IsSatisfiedByObject(self)
    \/ \E self \in DOMAIN nodes : ToExpressionObject(self)
    \/ \E self \in DOMAIN nodes : TranslateObject(self)

SpecNodes == InitNodes /\ [][NextNodes]_vars

\* C24: a composition returns a new object and leaves every existing
\* object as it was; is_satisfied_by, to_expression and translate change
\* neither an object nor the candidate; so is_satisfied_by of an object on
\* the candidate gives the same result before and after every step, and
\* repeated calls on the same object have returned the same result.
C24_TreeImmutable ==
    [][/\ \A a \in DOMAIN nodes : a \in DOMAIN nodes' /\ nodes'[a] = nodes[a]
       /\ Len(nodes') > Len(nodes) => Len(nodes') = Len(nodes) + 1
       /\ candidate' = candidate
       /\ \A a \in DOMAIN nodes :
            IsSatisfiedBy(Resolve(nodes', a), candidate')
                = IsSatisfiedBy(Resolve(nodes, a), candidate)
       /\ \A v, w \in verdicts' : v.spec = w.spec => v.outcome = w.outcome]_vars

\* the leaf was negated and the negation combined with the leaf, every
\* object evaluated, and an object translated
C24_Witness ==
    /\ pc = "objects" /\ Len(nodes) = MaxNodes
    /\ nodes[2].k = "NOT" /\ nodes[3].k \in {"AND", "OR"}
    /\ {v.spec : v \in verdicts} = DOMAIN nodes
    /\ translated # Idle

(***************************************************************************)
(* Units of work.  uow holds the fields of a SQLAlchemyUnitOfWork or a     *)
(* MongoDBUnitOfWork: the four tracking lists, the two flags, and backend, *)
(* the calls made on the session or transaction.  calls lists the calls of *)
(* commit() and rollback(): who made each (the caller inside the context   *)
(* or __aexit__) and whether it raised DatabaseException.                  *)
(***************************************************************************)
MaxUowCalls == 2

Entities == {"e1", "e2"}

\* BaseUnitOfWork.__init__ and the adapter's __init__
UnitOfWork(kind) ==
    [kind |-> kind, phase |-> "created",
     new_entities |-> <<>>, dirty_entities |-> <<>>,
     removed_entities |-> <<>>, clean_entities |-> <<>>,
     committed |-> FALSE, rolled_back |-> FALSE,
     transaction |-> FALSE, backend |-> <<>>]

\* entity in list
InList(e, l) == \E i \in DOMAIN l : l[i] = e

\* list.remove(entity): the first occurrence is removed
RECURSIVE ListRemove(_, _)
ListRemove(l, e) ==
    IF l = <<>> THEN <<>>
    ELSE IF Head(l) = e THEN Tail(l)
    ELSE <<Head(l)>> \o ListRemove(Tail(l), e)

\* list.append(entity) when the test holds
AppendIf(test, l, e) == IF test THEN Append(l, e) ELSE l
RemoveIfIn(l, e) == IF InList(e, l) THEN ListRemove(l, e) ELSE l

\* BaseUnitOfWork._remove_from_other_lists, except_list named by its field
remove_from_other_lists(u, e, except_list) ==
    [u EXCEPT
       !.new_entities =
           IF except_list = "new_entities" THEN @ ELSE RemoveIfIn(@, e),
       !.dirty_entities =
           IF except_list = "dirty_entities" THEN @ ELSE RemoveIfIn(@, e),
       !.removed_entities =
           IF except_list = "removed_entities" THEN @ ELSE RemoveIfIn(@, e),
       !.clean_entities =
           IF except_list = "clean_entities" THEN @ ELSE RemoveIfIn(@, e)]

\* BaseUnitOfWork.register_new
register_new(u, e) ==
    remove_from_other_lists(
        [u EXCEPT !.new_entities = AppendIf(~InList(e, @), @, e)],
        e, "new_entities")

\* BaseUnitOfWork.register_dirty
register_dirty(u, e) ==
    [u EXCEPT
       !.dirty_entities =
           AppendIf(~InList(e, @) /\ ~InList(e, u.new_entities), @, e),
       !.clean_entities = RemoveIfIn(@, e)]

\* BaseUnitOfWork.register_removed
register_removed(u, e) ==
    remove_from_other_lists(
        [u EXCEPT !.removed_entities = AppendIf(~InList(e, @), @, e)],
        e, "removed_entities")

\* BaseUnitOfWork.register_clean
register_clean(u, e) ==
    [u EXCEPT
       !.clean_entities =
           AppendIf(/\ ~InList(e, @)
                    /\ ~InList(e, u.new_entities)
                    /\ ~InList(e, u.dirty_entities)
                    /\ ~InList(e, u.removed_entities), @, e)]

\* BaseUnitOfWork.clear_tracking
clear_tracking(u) ==
    [u EXCEPT !.new_entities = <<>>, !.dirty_entities = <<>>,
              !.removed_entities = <<>>, !.clean_entities = <<>>,
              !.committed = FALSE, !.rolled_back = FALSE]

\* the session calls of SQLAlchemyUnitOfWork.commit before the commit itself
SessionCalls(u) ==
    [i \in 1..Len(u.new_entities) |-> "session.add"]
    \o [i \in 1..Len(u.dirty_entities) |-> "session.add"]
    \o [i \in 1..Len(u.removed_entities) |-> "session.delete"]

\* SQLAlchemyUnitOfWork.commit; fails: the backend raises SQLAlchemyError,
\* which leaves the flags and the tracking lists as they are
sqlalchemy_commit(u, fails) ==
    IF fails
    THEN [u EXCEPT !.backend = @ \o SessionCalls(u)]
    ELSE clear_tracking(
            [u EXCEPT
               !.backend = @ \o SessionCalls(u)
                   \o <<IF u.transaction THEN "transaction.commit"
                        ELSE "session.commit">>,
               !.committed = TRUE])

\* SQLAlchemyUnitOfWork.rollback
sqlalchemy_rollback(u, fails) ==
    IF fails THEN u
    ELSE clear_tracking(
            [u EXCEPT
               !.backend = Append(@, IF u.transaction THEN "transaction.rollback"
                                     ELSE "session.rollback"),
               !.rolled_back = TRUE])

\* MongoDBUnitOfWork.commit; fails: _perform_operations raises PyMongoError
mongodb_commit(u, fails) ==
    IF fails THEN u
    ELSE clear_tracking(
            [u EXCEPT !.backend = Append(@, "perform_operations"),
                      !.committed = TRUE])

\* MongoDBUnitOfWork.rollback: it has no backend call and cannot fail
mongodb_rollback(u) == clear_tracking([u EXCEPT !.rolled_back = TRUE])

commit(u, fails) ==
    IF u.kind = "sqlalchemy" THEN sqlalchemy_commit(u, fails)
    ELSE mongodb_commit(u, fails)
rollback(u, fails) ==
    IF u.kind = "sqlalchemy" THEN sqlalchemy_rollback(u, fails)
    ELSE mongodb_rollback(u)
\* whether the call raises DatabaseException
Raises(u, op, fails) == fails /\ ~(u.kind = "mongodb" /\ op = "rollback")

\* what BaseUnitOfWork.__aexit__ calls: "rollback", "commit" or nothing
ExitCall(u, exc) ==
    IF exc /\ ~u.rolled_back THEN "rollback"
    ELSE IF ~u.committed /\ ~u.rolled_back THEN "commit"
    ELSE "none"

AfterExitCall(u, op, fails) ==
    CASE op = "rollback" -> rollback(u, fails)
      [] op = "commit" -> commit(u, fails)
      [] OTHER -> u

\* the finally block of SQLAlchemyUnitOfWork.__aexit__ (the transaction is
\* set on entry) and of MongoDBUnitOfWork.__aexit__ (the session, if any)
ExitFinally(u, exc) ==
    IF u.kind = "sqlalchemy"
    THEN IF ~u.transaction THEN u
         ELSE IF exc /\ ~u.rolled_back
         THEN [u EXCEPT !.backend = Append(@, "transaction.rollback")]
         ELSE IF ~u.committed /\ ~u.rolled_back
         THEN [u EXCEPT !.backend = Append(@, "transaction.commit")]
         ELSE u
    ELSE IF u.transaction
         THEN [u EXCEPT !.backend = Append(@, "session.__aexit__")]
         ELSE u

CallsAfterExit(log, u, op, fails) ==
    IF op = "none" THEN log
    ELSE Append(log, [op |-> op, by |-> "exit", raised |-> Raises(u, op, fails)])

InitUow ==
    /\ uow \in {UnitOfWork("sqlalchemy"), UnitOfWork("mongodb")}
    /\ calls = <<>>
    /\ pc = "uow"
    /\ ParserIdle /\ rebuilt = Idle
    /\ TreeIdle /\ SortIdle /\ BuilderIdle /\ NodeIdle /\ RepoIdle /\ BusIdle

UowFrame ==
    UNCHANGED <<parserVars, leaf, rebuilt, treeVars, sortVars, builderVars,
                nodeVars, repoVars, busVars>>

\* async with uow: __aenter__.  SQLAlchemy begins a transaction; MongoDB
\* starts a session when the deployment supports one
Enter(session) ==
    /\ pc = "uow" /\ uow.phase = "created"
    /\ uow' = [uow EXCEPT
                 !.phase = "inside",
                 !.transaction = IF uow.kind = "sqlalchemy" THEN TRUE ELSE session,
                 !.backend = IF uow.kind = "sqlalchemy"
                             THEN Append(@, "session.begin")
                             ELSE IF session THEN Append(@, "start_session") ELSE @]
    /\ UNCHANGED calls
    /\ UowFrame

Registered(u) ==
    /\ pc = "uow" /\ uow.phase = "inside"
    /\ uow' = u
    /\ UNCHANGED calls
    /\ UowFrame

RegisterNew(e) == Registered(register_new(uow, e))
RegisterDirty(e) == Registered(register_dirty(uow, e))
RegisterRemoved(e) == Registered(register_removed(uow, e))
RegisterClean(e) == Registered(register_clean(uow, e))

\* await uow.commit() inside the context
Commit(fails) ==
    /\ pc = "uow" /\ uow.phase = "inside" /\ Len(calls) < MaxUowCalls
    /\ uow' = commit(uow, fails)
    /\ calls' = Append(calls, [op |-> "commit", by |-> "caller",
                               raised |-> Raises(uow, "commit", fails)])
    /\ UowFrame

\* await uow.rollback() inside the context
Rollback(fails) ==
    /\ pc = "uow" /\ uow.phase = "inside" /\ Len(calls) < MaxUowCalls
    /\ uow' = rollback(uow, fails)
    /\ calls' = Append(calls, [op |-> "rollback", by |-> "caller",
                               raised |-> Raises(uow, "rollback", fails)])
    /\ UowFrame

\* the context exits, with an exception or without: __aexit__
Exit(exc, fails) ==
    /\ pc = "uow" /\ uow.phase = "inside"
    /\ uow' = [ExitFinally(AfterExitCall(uow, ExitCall(uow, exc), fails), exc)
                 EXCEPT !.phase = IF exc THEN "exited with exception" ELSE "exited"]
    /\ calls' = CallsAfterExit(calls, uow, ExitCall(uow, exc), fails)
    /\ UowFrame

NextUow ==
    \/ \E session \in BOOLEAN : Enter(session)
    \/ \E e \in Entities : RegisterNew(e)
    \/ \E e \in Entities : RegisterDirty(e)
    \/ \E e \in Entities : RegisterRemoved(e)
    \/ \E e \in Entities : RegisterClean(e)
    \/ \E fails \in BOOLEAN : Commit(fails)
    \/ \E fails \in BOOLEAN : Rollback(fails)
    \/ \E exc \in BOOLEAN, fails \in BOOLEAN : Exit(exc, fails)

SpecUow == InitUow /\ [][NextUow]_vars

(***************************************************************************)
(* Unit-of-work properties.                                                *)
(***************************************************************************)
\* the caller called op inside the context
CallerCalled(op) ==
    \E i \in DOMAIN calls : calls[i].by = "caller" /\ calls[i].op = op
\* __aexit__ called op
ExitCalled(op) ==
    \E i \in DOMAIN calls : calls[i].by = "exit" /\ calls[i].op = op

\* C25: on exit with an exception rollback is performed unless the caller
\* already rolled back inside the context; on exit without one commit is
\* performed only if the caller called neither commit() nor rollback(); so
\* commit is never executed again after an explicit commit, and never after
\* an explicit rollback.
C25_ExitProtocol ==
    /\ (uow # Idle /\ uow.phase = "exited with exception")
       => /\ ExitCalled("rollback") <=> ~CallerCalled("rollback")
          /\ ~ExitCalled("commit")
    /\ (uow # Idle /\ uow.phase = "exited")
       => /\ ExitCalled("commit")
                <=> (~CallerCalled("commit") /\ ~CallerCalled("rollback"))
          /\ ~ExitCalled("rollback")

\* the context was left without an exception after an explicit commit
C25_Witness ==
    /\ uow # Idle /\ uow.phase = "exited"
    /\ Len(calls) >= 1 /\ calls[1] = [op |-> "commit", by |-> "caller", raised |-> FALSE]

\* how many times an entity occurs in a list
Occurrences(e, l) == Cardinality({i \in DOMAIN l : l[i] = e})

\* C28: after any sequence of register_new, register_dirty, register_removed
\* and register_clean, every entity is in at most one of the four tracking
\* lists and at most once in it.
C28_TrackingExclusive ==
    uow # Idle
    => \A e \in Entities :
          Occurrences(e, uow.new_entities) + Occurrences(e, uow.dirty_entities)
          + Occurrences(e, uow.removed_entities) + Occurrences(e, uow.clean_entities)
              <= 1

\* an entity registered as removed and another as new, then one as dirty
C28_Witness ==
    /\ uow # Idle
    /\ InList("e1", uow.removed_entities) /\ InList("e2", uow.new_entities)
    /\ InList("e1", uow.dirty_entities)

(***************************************************************************)
(* MockRepository.  An entity is a dict with a name and an id (None when   *)
(* it has none yet); _data is a function from the ids in use to the stored *)
(* entities.                                                               *)
(***************************************************************************)
MaxRepoSteps == 3

Entity(name, id) == [name |-> name, id |-> id]

\* MockRepository.__init__
MockRepository ==
    [data |-> <<>>, next_id |-> 1, saved_entities |-> <<>>,
     deleted_entities |-> <<>>, steps |-> 0]

\* MockRepository._get_entity_id of a dict: entity["id"]
get_entity_id(entity) == entity.id

\* MockRepository._set_entity_id of a dict
set_entity_id(entity, entity_id) == [entity EXCEPT !.id = entity_id]

\* self._data[entity_id] = entity
Store(r, entity) ==
    [r EXCEPT !.data = (entity.id.i :> entity) @@ r.data]

\* the id a save or seed gives the entity: its own, or _generate_id()
WithId(r, entity) ==
    IF get_entity_id(entity) = PyNone
    THEN set_entity_id(entity, PyInt(r.next_id))
    ELSE entity
\* _generate_id: _next_id advances when an id was generated
AfterGenerate(r, entity) ==
    IF get_entity_id(entity) = PyNone
    THEN [r EXCEPT !.next_id = @ + 1]
    ELSE r

\* MockRepository.save
save(r, entity) ==
    [Store(AfterGenerate(r, entity), WithId(r, entity))
        EXCEPT !.saved_entities = Append(@, WithId(r, entity))]

\* MockRepository.seed_data
RECURSIVE seed_data(_, _)
seed_data(r, entities) ==
    IF entities = <<>> THEN r
    ELSE seed_data(Store(AfterGenerate(r, Head(entities)), WithId(r, Head(entities))),
                   Tail(entities))

\* del self._data[entity_id]
Without(data, k) == [j \in DOMAIN data \ {k} |-> data[j]]

\* MockRepository.delete
delete(r, entity) ==
    IF get_entity_id(entity) # PyNone /\ get_entity_id(entity).i \in DOMAIN r.data
    THEN [r EXCEPT !.data = Without(@, entity.id.i),
                   !.deleted_entities = Append(@, entity)]
    ELSE r

RepoNames == {"x", "y"}
RepoIds == {PyNone, PyInt(1), PyInt(2)}
RepoEntities == {Entity(n, i) : n \in RepoNames, i \in RepoIds}
SeedLists ==
    {<<e>> : e \in RepoEntities}
    \cup {<<Entity("x", PyInt(1)), Entity("y", PyNone)>>,
          <<Entity("x", PyNone), Entity("y", PyNone)>>}

InitRepo ==
    /\ repo = MockRepository
    /\ pc = "repository"
    /\ ParserIdle /\ rebuilt = Idle
    /\ TreeIdle /\ SortIdle /\ BuilderIdle /\ NodeIdle /\ UowIdle /\ BusIdle

RepoStep(r) ==
    /\ pc = "repository" /\ repo.steps < MaxRepoSteps
    /\ repo' = [r EXCEPT !.steps = @ + 1]
    /\ UNCHANGED <<parserVars, leaf, rebuilt, treeVars, sortVars, builderVars,
                   nodeVars, uowVars, busVars>>

Save(entity) == RepoStep(save(repo, entity))
SeedData(entities) == RepoStep(seed_data(repo, entities))
Delete(entity) == RepoStep(delete(repo, entity))

NextRepo ==
    \/ \E entity \in RepoEntities : Save(entity)
    \/ \E entities \in SeedLists : SeedData(entities)
    \/ \E entity \in RepoEntities : Delete(entity)

SpecRepo == InitRepo /\ [][NextRepo]_vars

\* the step is a save that generated an id: the history grew and _next_id moved
SavedNew ==
    /\ Len(repo'.saved_entities) = Len(repo.saved_entities) + 1
    /\ repo'.next_id = repo.next_id + 1

\* C29: after any sequence of seed_data, save and delete, saving an entity
\* without an id gives it an id that is not a key of the store, so the store
\* grows by exactly one entity and every stored entity stays as it was.
C29_SaveKeepsStored ==
    [][SavedNew =>
         /\ repo.next_id \notin DOMAIN repo.data
         /\ DOMAIN repo'.data = DOMAIN repo.data \cup {repo.next_id}
         /\ Cardinality(DOMAIN repo'.data) = Cardinality(DOMAIN repo.data) + 1
         /\ \A k \in DOMAIN repo.data : repo'.data[k] = repo.data[k]]_vars

\* an entity without an id was saved into a store that holds others
C29_Witness ==
    /\ repo # Idle /\ Len(repo.saved_entities) >= 1 /\ repo.next_id >= 2
    /\ Cardinality(DOMAIN repo.data) >= 2

(***************************************************************************)
(* EventBusWithAdapters, without external publishers, subscribers, event   *)
(* store or logger.  Handlers are names; a filter function is named by     *)
(* what it does with an event; an event has a type and a payload.          *)
(***************************************************************************)
MaxEvents == 2
MaxFilters == 2

Wildcard == "*"
EventTypes == {"user.created"}
SubscriptionTypes == EventTypes \cup {Wildcard}
EventHandlers == {"h1", "h2"}
NoFilter == "None"
FilterFuncs == {NoFilter, "only_a", "raises"}
Events == {[event_type |-> t, payload |-> p] : t \in EventTypes, p \in {"a", "b"}}

\* EventBusWithAdapters.__init__: the two defaultdict(list)
EventBusWithAdapters ==
    [handlers |-> [t \in SubscriptionTypes |-> <<>>],
     filters |-> [t \in SubscriptionTypes |-> <<>>],
     event_count |-> 0, is_running |-> FALSE]

\* EventBusWithAdapters.subscribe
subscribe(b, event_type, handler, filter_func) ==
    IF InList(handler, b.handlers[event_type]) THEN b
    ELSE [b EXCEPT !.handlers[event_type] = Append(@, handler),
                   !.filters[event_type] =
                       AppendIf(filter_func # NoFilter, @, filter_func)]

\* EventBusWithAdapters.unsubscribe
unsubscribe(b, event_type, handler) ==
    [b EXCEPT !.handlers[event_type] = RemoveIfIn(@, handler)]

\* filter_func(event) is truthy; a filter that raises accepts nothing
FilterAccepts(filter_func, event) ==
    CASE filter_func = "only_a" -> event.payload = "a"
      [] filter_func = "raises" -> FALSE

\* EventBusWithAdapters._should_handle_event
should_handle_event(b, event, event_type) ==
    \A i \in DOMAIN b.filters[event_type] :
        FilterAccepts(b.filters[event_type][i], event)

\* handlers + wildcard_handlers
AllHandlers(b, event) == b.handlers[event.event_type] \o b.handlers[Wildcard]

\* EventBusWithAdapters._handle_local_event: the handlers that are executed
handle_local_event(b, event) ==
    IF should_handle_event(b, event, event.event_type)
    THEN AllHandlers(b, event)
    ELSE <<>>

\* EventBusWithAdapters.publish, with start() on the first call
publish(b) == [b EXCEPT !.is_running = TRUE, !.event_count = @ + 1]

FiltersKept(b) == Len(b.filters[Wildcard]) + Len(b.filters["user.created"])

\* the subscriptions in force: a second subscribe of a subscribed handler
\* changes nothing, and unsubscribe ends the subscription
Subscription(event_type, handler, filter_func) ==
    [event_type |-> event_type, handler |-> handler, filter_func |-> filter_func]
IsSubscribed(event_type, handler) ==
    \E s \in subscribed : s.event_type = event_type /\ s.handler = handler

InitBus ==
    /\ bus = EventBusWithAdapters
    /\ subscribed = {}
    /\ invoked = Idle
    /\ pc = "bus"
    /\ ParserIdle /\ rebuilt = Idle
    /\ TreeIdle /\ SortIdle /\ BuilderIdle /\ NodeIdle /\ UowIdle /\ RepoIdle

BusFrame ==
    UNCHANGED <<parserVars, leaf, rebuilt, treeVars, sortVars, builderVars,
                nodeVars, uowVars, repoVars, pc>>

Subscribe(event_type, handler, filter_func) ==
    /\ pc = "bus"
    /\ filter_func # NoFilter => FiltersKept(bus) < MaxFilters
    /\ bus' = subscribe(bus, event_type, handler, filter_func)
    /\ subscribed' =
           IF IsSubscribed(event_type, handler) THEN subscribed
           ELSE subscribed \cup {Subscription(event_type, handler, filter_func)}
    /\ UNCHANGED invoked
    /\ BusFrame

Unsubscribe(event_type, handler) ==
    /\ pc = "bus"
    /\ bus' = unsubscribe(bus, event_type, handler)
    /\ subscribed' =
           {s \in subscribed : ~(s.event_type = event_type /\ s.handler = handler)}
    /\ UNCHANGED invoked
    /\ BusFrame

Publish(event) ==
    /\ pc = "bus"
    /\ bus.event_count < MaxEvents
    /\ bus' = publish(bus)
    /\ invoked' = [event |-> event, handlers |-> handle_local_event(bus, event)]
    /\ UNCHANGED subscribed
    /\ BusFrame

NextBus ==
    \/ \E t \in SubscriptionTypes, h \in EventHandlers, f \in FilterFuncs :
           Subscribe(t, h, f)
    \/ \E t \in SubscriptionTypes, h \in EventHandlers : Unsubscribe(t, h)
    \/ \E event \in Events : Publish(event)

SpecBus == InitBus /\ [][NextBus]_vars

\* the step is a publish
Published == bus'.event_count = bus.event_count + 1

\* the subscription's own filter, if any, accepts the event
OwnFilterAccepts(s, event) ==
    s.filter_func = NoFilter \/ FilterAccepts(s.filter_func, event)

\* the subscriptions of the handler that the event reaches and whose own
\* filter accepts it
Due(handler, event) ==
    {s \in subscribed :
        /\ s.handler = handler
        /\ s.event_type \in {event.event_type, Wildcard}
        /\ OwnFilterAccepts(s, event)}

\* C30: a filter given to subscribe gates only its own handler: publishing an
\* event invokes a subscribed handler exactly when that handler's own filter
\* (if any) accepts the event, whatever the filters of other handlers of the
\* type, of unsubscribed handlers, or (for "*" handlers) of the concrete type.
C30_FilterIsolation ==
    [][Published =>
         \A h \in EventHandlers :
             Occurrences(h, invoked'.handlers)
                 = Cardinality(Due(h, invoked'.event))]_vars

\* an event was published while a handler with a filter and a handler
\* without one were subscribed, and a handler ran
C30_Witness ==
    /\ invoked # Idle /\ Len(invoked.handlers) >= 1
    /\ \E s1, s2 \in subscribed :
           s1.filter_func # NoFilter /\ s2.filter_func = NoFilter
====
